---- MODULE Spec2Model ----
(***************************************************************************)
(* A model of the single-node ledger of OmSingh2003/Blockchain-go: the     *)
(* chain engine (internal/blockchain), its UTXO index, the PoS and PoW     *)
(* consensus implementations, transactions and wallet signatures.          *)
(*                                                                         *)
(* Byte strings are sequences.  SHA-256 and RIPEMD-160 are taken to be     *)
(* collision free: a digest is identified with the byte string it was      *)
(* computed from, so two digests are equal exactly when their preimages    *)
(* are.  Where a digest is read as a number (proof of work) HashInt gives  *)
(* it a value of HashWidth bits.                                           *)
(***************************************************************************)
EXTENDS Integers, Sequences, FiniteSets, TLC

VARIABLES
    dbExists,        \* blockchain.db is on disk (DbExists)
    blocks,          \* bucket "blocks": block hash -> block
    lastHash,        \* bucket "blocks", key "l"
    tip,             \* Blockchain.tip, the in-memory tip
    utxoBucket,      \* bucket "chainstate" exists
    chainstate,      \* bucket "chainstate": tx id -> outputs
    validatorSet,    \* PoSConsensus.validatorSet, the in-memory cache
    validatorsDB,    \* bucket "validators": HashPubKey(pubkey) -> Validator
    last,            \* outcome of the most recent engine call
    mu,              \* Blockchain.mu: Unlocked, or the thread holding the write lock
    pc,              \* per thread: position in MineBlock and Update, or in a read
    loc,             \* per thread: locals of the running call
    pow              \* a ProofOfWork and the position of its Run

vars == <<dbExists, blocks, lastHash, tip, utxoBucket, chainstate,
          validatorSet, validatorsDB, last, mu, pc, loc, pow>>

(***************************************************************************)
(* Bounds of the model.                                                    *)
(***************************************************************************)
MaxBlocks == 2        \* blocks appended after the genesis block
MaxStakeCalls == 1    \* successful AddStake calls after create

(***************************************************************************)
(* Wallets.  A wallet holds a private scalar D and the PublicKey bytes it  *)
(* declares; the engine takes both as given.  newKeyPair sets PublicKey to *)
(* X || Y of the point D*G, a byte string that read as a number is not D   *)
(* (the honest wallet).  A wallet loaded from a wallet file holds whatever *)
(* the file says: the second wallet declares the bytes of D itself as its  *)
(* PublicKey.  Scalars and byte strings are numbers here.                  *)
(***************************************************************************)
WalletA == [D |-> 21, PublicKey |-> 1]
WalletM == [D |-> 3, PublicKey |-> 3]
Wallets == {WalletA, WalletM}

PubKeys == {w.PublicKey : w \in Wallets}

\* wallet.HashPubKey: RIPEMD-160(SHA-256(pubKey)), one distinct hash per key.
HashPubKey(pubKey) == 10 + pubKey

Sha256(data) == <<data>>

(***************************************************************************)
(* Signatures.  ecdsa.Sign(priv, data) gives (r, s); SignData returns      *)
(* r.Bytes() || s.Bytes(), which is 64 bytes long unless r or s has a      *)
(* leading zero byte.  A signature is <<private scalar, data, length>>.    *)
(***************************************************************************)
NilBytes == <<>>

SigLens == {64, 63}

SignData(d, data, len) == <<d, data, len>>

\* elliptic.ScalarBaseMult(k): the point k*G, one point per scalar.
ScalarBaseMult(k) == k

\* ecdsa.Verify(pub, data, r, s): the signature was made over data by the
\* private scalar whose point is pub.
EcdsaVerify(point, data, sig) == ScalarBaseMult(sig[1]) = point /\ sig[2] = data

\* wallet.VerifySignature: the verifying point is ScalarBaseMult(pubKey), the
\* base point multiplied by the public key's bytes read as a scalar.
VerifySignature(pubKey, data, sig) ==
    LET point == ScalarBaseMult(pubKey)
    IN  /\ Len(sig) = 3
        /\ sig[3] = 64
        /\ EcdsaVerify(point, data, sig)

(***************************************************************************)
(* Transactions.                                                           *)
(***************************************************************************)
NilKey == 0

TxInput(txid, vout, sig, pubKey) ==
    [Txid |-> txid, Vout |-> vout, Signature |-> sig, PubKey |-> pubKey]

TxOutput(value, pubKeyHash) == [Value |-> value, PubKeyHash |-> pubKeyHash]

\* Transaction.Hash: SHA-256 of the serialization with ID cleared.
TxHash(tx) == Sha256(<<tx.Vin, tx.Vout>>)

IsCoinbase(tx) ==
    /\ Len(tx.Vin) = 1
    /\ Len(tx.Vin[1].Txid) = 0
    /\ tx.Vin[1].Vout = -1

TrimmedCopy(tx) ==
    [ID |-> tx.ID,
     Vin |-> [i \in DOMAIN tx.Vin |->
                 TxInput(tx.Vin[i].Txid, tx.Vin[i].Vout, NilBytes, NilKey)],
     Vout |-> tx.Vout]

\* hex.EncodeToString(id) and string(id) as map keys: the two encodings of
\* a 32-byte id differ (64 characters against 32 bytes); of the empty id
\* both are the empty string.
HexKey(id) == IF Len(id) = 0 THEN <<>> ELSE <<1, id>>
RawKey(id) == IF Len(id) = 0 THEN <<>> ELSE <<0, id>>

\* prevTx.Vout[vin.Vout]: Go indexes from 0 and panics out of range.
InRange(prevTx, vout) == vout >= 0 /\ vout < Len(prevTx.Vout)

\* The digest signed and verified for input i: the trimmed copy with input
\* i's PubKey set to the referenced output's PubKeyHash, hashed.
InputDigest(tx, i, prevTx) ==
    LET copy == TrimmedCopy(tx)
        withKey == [copy EXCEPT !.Vin[i].PubKey =
                        prevTx.Vout[tx.Vin[i].Vout + 1].PubKeyHash]
    IN  TxHash(withKey)

\* Indexes of the inputs Sign and Verify look at (the others are skipped
\* as "coinbase" inputs).
CheckedInputs(tx) == {i \in DOMAIN tx.Vin : Len(tx.Vin[i].Txid) # 0}

\* Transaction.Verify: "ok", "invalid" (false, nil), "error" (a referenced
\* transaction is not in prevTXs) or "panic" (index out of range).  The
\* second loop stops at the first input that panics or fails.
InputOk(tx, i, prevTXs) ==
    LET prevTx == prevTXs[HexKey(tx.Vin[i].Txid)]
    IN  /\ InRange(prevTx, tx.Vin[i].Vout)
        /\ VerifySignature(tx.Vin[i].PubKey, InputDigest(tx, i, prevTx),
                           tx.Vin[i].Signature)

Verify(tx, prevTXs) ==
    IF IsCoinbase(tx) THEN "ok"
    ELSE IF \E i \in CheckedInputs(tx) : HexKey(tx.Vin[i].Txid) \notin DOMAIN prevTXs
    THEN "error"
    ELSE LET bad == {i \in CheckedInputs(tx) : ~InputOk(tx, i, prevTXs)}
         IN  IF bad = {} THEN "ok"
             ELSE LET first == CHOOSE i \in bad : \A j \in bad : i <= j
                  IN  IF InRange(prevTXs[HexKey(tx.Vin[first].Txid)],
                                 tx.Vin[first].Vout)
                      THEN "invalid" ELSE "panic"

\* Transaction.ValidateTransaction: "ok", "error" or "panic".
ValidateTransaction(tx, prevTXs) ==
    IF Len(tx.ID) = 0 \/ Len(tx.Vin) = 0 \/ Len(tx.Vout) = 0 THEN "error"
    ELSE IF IsCoinbase(tx) THEN "ok"
    ELSE LET v == Verify(tx, prevTXs)
         IN  IF v = "invalid" THEN "error" ELSE v

\* NewCoinbaseTx(to, data): the subsidy to HashPubKey(to); data goes in the
\* input's PubKey field.
Subsidy == 50

NewCoinbaseTx(to, data) ==
    LET body == [ID |-> NilBytes,
                 Vin |-> <<TxInput(NilBytes, -1, NilBytes, data)>>,
                 Vout |-> <<TxOutput(Subsidy, HashPubKey(to))>>]
    IN  [body EXCEPT !.ID = TxHash(body)]

(***************************************************************************)
(* Blocks.                                                                 *)
(***************************************************************************)
RECURSIVE Digits(_)
Digits(n) == IF n < 10 THEN <<n>> ELSE Digits(n \div 10) \o <<n % 10>>

\* block.IntToHex: the number in decimal, as text; a negative one has a sign
\* in front (written 45, the character code of "-").
IntToHex(n) == IF n < 0 THEN <<45>> \o Digits(-n) ELSE Digits(n)

\* block.NewBlock: only timestamp, transactions and previous hash are set.
NewBlock(transactions, prevBlockHash, now) ==
    [Timestamp |-> now, Transactions |-> transactions,
     PrevBlockHash |-> prevBlockHash, Hash |-> NilBytes, Nonce |-> 0,
     Bits |-> 0, ValidatorPubKey |-> NilKey, Signature |-> NilBytes]

RECURSIVE JoinIDs(_)
JoinIDs(txs) == IF Len(txs) = 0 THEN <<>> ELSE Head(txs).ID \o JoinIDs(Tail(txs))

\* Block.hashTransactionsInternal: SHA-256 of the transaction ids joined.
hashTransactionsInternal(b) == Sha256(JoinIDs(b.Transactions))

\* Block.PrepareData.  The previous hash (32 bytes or none) and the
\* transaction hash (32 bytes) keep their places; the three numbers are
\* joined as text with nothing between them.
PrepareData(b, nonce, targetBits) ==
    <<b.PrevBlockHash, hashTransactionsInternal(b),
      IntToHex(b.Timestamp) \o IntToHex(targetBits) \o IntToHex(nonce)>>

\* Block.GetHashableDataPoS: the same with the block's own bits and nonce,
\* and the validator's public key at the end.
GetHashableDataPoS(b) ==
    <<b.PrevBlockHash, hashTransactionsInternal(b),
      IntToHex(b.Timestamp) \o IntToHex(b.Bits) \o IntToHex(b.Nonce),
      b.ValidatorPubKey>>

GetPoSHash(b) == Sha256(GetHashableDataPoS(b))

\* Block.UpdateHash and Block.CalculateHash: the hash from the block's own
\* Nonce and Bits.
CalculateHash(b) == Sha256(PrepareData(b, b.Nonce, b.Bits))

UpdateHash(b) == [b EXCEPT !.Hash = CalculateHash(b)]

\* Block.ValidateBlock: "ok", "error", or "panic" when a transaction's
\* validation goroutine panics.
ValidateBlock(b, prevTXs) ==
    IF Len(b.PrevBlockHash) = 0
    THEN IF Len(b.Transactions) # 1 \/ ~IsCoinbase(b.Transactions[1])
         THEN "error" ELSE "ok"
    ELSE IF Len(b.Transactions) = 0 THEN "error"
    ELSE IF ~IsCoinbase(b.Transactions[1]) THEN "error"
    ELSE LET res == {ValidateTransaction(b.Transactions[i], prevTXs) :
                        i \in {j \in DOMAIN b.Transactions :
                                  ~IsCoinbase(b.Transactions[j])}}
         IN  IF "panic" \in res THEN "panic"
             ELSE IF "error" \in res THEN "error" ELSE "ok"

(***************************************************************************)
(* Proof of stake.  A validator is [PublicKey, Stake]; its Address is a    *)
(* function of PublicKey.                                                  *)
(***************************************************************************)
MinStake == 100

\* Validator.Stake and selectValidator's cumulativeStake are int64 and wrap
\* on overflow; StakeBits stands for 64.
StakeBits == 12

Int64(x) ==
    LET m == 2 ^ StakeBits
        y == x % m
    IN  IF y >= m \div 2 THEN y - m ELSE y

RECURSIVE TotalStake(_)
TotalStake(vs) ==
    IF Len(vs) = 0 THEN 0
    ELSE (IF Head(vs).Stake > 0 THEN Head(vs).Stake ELSE 0) + TotalStake(Tail(vs))

\* PoSConsensus.selectValidator with random number randNum in
\* 0 .. TotalStake - 1: the index of the first validator with positive stake
\* for which randNum is below cumulativeStake (an int64, while the total is
\* a big.Int); 0 when the call returns an error.
selectValidator(vs, randNum) ==
    LET hit == {i \in DOMAIN vs :
                   vs[i].Stake > 0 /\ randNum < Int64(TotalStake(SubSeq(vs, 1, i)))}
    IN  IF Len(vs) = 0 \/ TotalStake(vs) = 0 \/ hit = {} THEN 0
        ELSE CHOOSE i \in hit : \A j \in hit : i <= j

\* One random number for every validator that can be selected.
RandNums(vs) ==
    IF TotalStake(vs) = 0 THEN {0}
    ELSE {TotalStake(SubSeq(vs, 1, i)) - 1 : i \in {j \in DOMAIN vs : vs[j].Stake > 0}}

\* A ProposeBlock that signs for any caller once some validator is selected.
\* ProposeBlock without the comparison of the caller's key with the key of
\* the selected validator.
PoSProposeBlockAnyCaller(vs, randNum, w, transactions, prevBlockHash, now, sigLen) ==
    LET sel == selectValidator(vs, randNum)
        b0 == [NewBlock(transactions, prevBlockHash, now)
                  EXCEPT !.ValidatorPubKey = w.PublicKey]
        dataHash == Sha256(GetHashableDataPoS(b0))
        b1 == [b0 EXCEPT !.Signature = SignData(w.D, dataHash, sigLen)]
    IN  IF sel = 0 THEN [ok |-> FALSE, block |-> b0]
        ELSE [ok |-> TRUE, block |-> [b1 EXCEPT !.Hash = GetPoSHash(b1)]]

\* PoSConsensus.ProposeBlock: [ok, block].
PoSProposeBlock(vs, randNum, w, transactions, prevBlockHash, now, sigLen) ==
    LET sel == selectValidator(vs, randNum)
        b0 == [NewBlock(transactions, prevBlockHash, now)
                  EXCEPT !.ValidatorPubKey = w.PublicKey]
        dataHash == Sha256(GetHashableDataPoS(b0))
        b1 == [b0 EXCEPT !.Signature = SignData(w.D, dataHash, sigLen)]
    IN  IF sel = 0 THEN [ok |-> FALSE, block |-> b0]
        ELSE IF w.PublicKey # vs[sel].PublicKey THEN [ok |-> FALSE, block |-> b0]
        ELSE [ok |-> TRUE, block |-> [b1 EXCEPT !.Hash = GetPoSHash(b1)]]

\* PoSConsensus.ValidateBlock: "ok", "error" or "panic".
PoSValidateBlock(vs, b, prevTXs) ==
    LET basic == ValidateBlock(b, prevTXs)
        dataHash == Sha256(GetHashableDataPoS(b))
        found == {i \in DOMAIN vs : vs[i].PublicKey = b.ValidatorPubKey}
        first == CHOOSE i \in found : \A j \in found : i <= j
    IN  IF basic # "ok" THEN basic
        ELSE IF b.ValidatorPubKey = NilKey \/ Len(b.Signature) = 0 THEN "error"
        ELSE IF ~VerifySignature(b.ValidatorPubKey, dataHash, b.Signature) THEN "error"
        ELSE IF found = {} THEN "error"
        ELSE IF vs[first].Stake < MinStake THEN "error"
        ELSE "ok"

\* The check of PoSConsensus.ValidateBlock that makes it return false, in
\* the order of the code; "none" when it returns true.
PoSValidateBlockReason(vs, b, prevTXs) ==
    LET basic == ValidateBlock(b, prevTXs)
        dataHash == Sha256(GetHashableDataPoS(b))
        found == {i \in DOMAIN vs : vs[i].PublicKey = b.ValidatorPubKey}
        first == CHOOSE i \in found : \A j \in found : i <= j
    IN  IF basic # "ok" THEN "structure"
        ELSE IF b.ValidatorPubKey = NilKey \/ Len(b.Signature) = 0 THEN "missing"
        ELSE IF ~VerifySignature(b.ValidatorPubKey, dataHash, b.Signature)
        THEN "signature"
        ELSE IF found = {} THEN "unknown_validator"
        ELSE IF vs[first].Stake < MinStake THEN "insufficient_stake"
        ELSE "none"

\* PoSConsensus.AddStake on the in-memory set (the amount is positive).
AddStakeSet(vs, stakeAmount, w) ==
    LET found == {i \in DOMAIN vs : vs[i].PublicKey = w.PublicKey}
        first == CHOOSE i \in found : \A j \in found : i <= j
    IN  IF found # {}
        THEN [vs EXCEPT ![first].Stake = Int64(@ + stakeAmount)]
        ELSE Append(vs, [PublicKey |-> w.PublicKey, Stake |-> stakeAmount])

(***************************************************************************)
(* The block store and the walk from a tip.                                *)
(***************************************************************************)
EmptyMap == [k \in {} |-> {}]

\* bbolt Bucket.Put and Bucket.Delete on a bucket held as a function.
Put(m, k, v) == [x \in DOMAIN m \cup {k} |-> IF x = k THEN v ELSE m[x]]

Delete(m, k) == [x \in DOMAIN m \ {k} |-> m[x]]

\* BlockchainIterator.Next repeated from hash h until a block is missing or
\* has no previous hash: the blocks visited, newest first.
RECURSIVE ChainFrom(_, _)
ChainFrom(h, store) ==
    IF h \notin DOMAIN store THEN <<>>
    ELSE IF Len(store[h].PrevBlockHash) = 0 THEN <<store[h]>>
    ELSE <<store[h]>> \o ChainFrom(store[h].PrevBlockHash, store)

\* The transactions in the order the walks meet them.
RECURSIVE AllTxs(_)
AllTxs(chain) ==
    IF Len(chain) = 0 THEN <<>> ELSE Head(chain).Transactions \o AllTxs(Tail(chain))

\* Blockchain.FindTransaction: the transactions with this id, first met
\* first; none is "transaction not found".
FindTransaction(ID, tipHash, store) ==
    SelectSeq(AllTxs(ChainFrom(tipHash, store)), LAMBDA t : t.ID = ID)

\* The prevTXs map VerifyTransaction and SignTransaction build for tx, keyed
\* by hex id (every referenced transaction is found).
PrevTXsHex(tx, tipHash, store) ==
    [k \in {HexKey(tx.Vin[i].Txid) : i \in DOMAIN tx.Vin} |->
        LET i == CHOOSE j \in DOMAIN tx.Vin : HexKey(tx.Vin[j].Txid) = k
        IN  Head(FindTransaction(tx.Vin[i].Txid, tipHash, store))]

AllFound(tx, tipHash, store) ==
    \A i \in DOMAIN tx.Vin : Len(FindTransaction(tx.Vin[i].Txid, tipHash, store)) > 0

\* Blockchain.VerifyTransaction: "ok", "error" or "panic".
VerifyTransaction(tx, tipHash, store) ==
    IF IsCoinbase(tx) THEN "ok"
    ELSE IF ~AllFound(tx, tipHash, store) THEN "error"
    ELSE LET v == Verify(tx, PrevTXsHex(tx, tipHash, store))
         IN  IF v = "invalid" THEN "error" ELSE v

\* The prevTXs map MineBlock builds for block validation, keyed by the raw
\* id bytes of every transaction the block's inputs refer to.
PrevTXsRaw(transactions, tipHash, store) ==
    LET ids == UNION {{transactions[j].Vin[i].Txid : i \in DOMAIN transactions[j].Vin} :
                         j \in {n \in DOMAIN transactions : ~IsCoinbase(transactions[n])}}
    IN  [k \in {RawKey(id) : id \in ids} |->
            LET id == CHOOSE x \in ids : RawKey(x) = k
            IN  Head(FindTransaction(id, tipHash, store))]

(***************************************************************************)
(* The UTXO index.  Keys are transaction ids; FindUTXO's hex keys are      *)
(* decoded back to the same ids by Reindex.                                *)
(***************************************************************************)
Lookup(m, k) == IF k \in DOMAIN m THEN m[k] ELSE <<>>

\* The scan of one transaction's outputs in Blockchain.FindUTXO.
UnspentOf(tx, spentTXOs) ==
    LET spent == Lookup(spentTXOs, tx.ID)
    IN  SelectSeq([i \in DOMAIN tx.Vout |-> <<i - 1, tx.Vout[i]>>],
                  LAMBDA e : \A n \in DOMAIN spent : spent[n] # e[1])

RECURSIVE MarkSpent(_, _)
MarkSpent(vin, spentTXOs) ==
    IF Len(vin) = 0 THEN spentTXOs
    ELSE MarkSpent(Tail(vin),
             Put(spentTXOs, Head(vin).Txid,
                 Append(Lookup(spentTXOs, Head(vin).Txid), Head(vin).Vout)))

RECURSIVE ScanTxs(_, _, _)
ScanTxs(txs, UTXO, spentTXOs) ==
    IF Len(txs) = 0 THEN UTXO
    ELSE LET tx == Head(txs)
             add == UnspentOf(tx, spentTXOs)
             outs == Lookup(UTXO, tx.ID) \o [i \in DOMAIN add |-> add[i][2]]
             UTXO1 == IF Len(add) = 0 THEN UTXO ELSE Put(UTXO, tx.ID, outs)
             spent1 == IF IsCoinbase(tx) THEN spentTXOs
                       ELSE MarkSpent(tx.Vin, spentTXOs)
         IN  ScanTxs(Tail(txs), UTXO1, spent1)

\* Blockchain.FindUTXO: transaction id -> unspent outputs, walking from the
\* in-memory tip.
FindUTXO(tipHash, store) ==
    ScanTxs(AllTxs(ChainFrom(tipHash, store)), EmptyMap, EmptyMap)

\* Reindex that leaves the index empty.
ReindexEmpty(tipHash, store) == [res |-> "ok", cs |-> EmptyMap]

\* UTXOSet.Reindex: the bucket is emptied, then filled from FindUTXO in a
\* second database transaction, which fails as a whole on an empty key.
Reindex(tipHash, store) ==
    LET UTXO == FindUTXO(tipHash, store)
    IN  IF NilBytes \in DOMAIN UTXO
        THEN [res |-> "error", cs |-> EmptyMap]
        ELSE [res |-> "ok", cs |-> UTXO]

\* The outputs UTXOSet.Update keeps for an input: those whose position in
\* the stored list differs from vin.Vout.
KeptOuts(outs, vout) ==
    LET idx == SelectSeq([i \in DOMAIN outs |-> i], LAMBDA i : i - 1 # vout)
    IN  [n \in DOMAIN idx |-> outs[idx[n]]]

\* The inputs of one transaction in UTXOSet.Update.  st is [res, cs];
\* decoding a missing entry panics, writing under an empty key fails.
RECURSIVE UpdateInputs(_, _)
UpdateInputs(vin, st) ==
    IF Len(vin) = 0 \/ st.res # "ok" THEN st
    ELSE LET in == Head(vin)
         IN  IF in.Txid \notin DOMAIN st.cs THEN [st EXCEPT !.res = "panic"]
             ELSE LET updatedOuts == KeptOuts(st.cs[in.Txid], in.Vout)
                  IN  UpdateInputs(Tail(vin),
                          [st EXCEPT !.cs = IF Len(updatedOuts) = 0
                                            THEN Delete(st.cs, in.Txid)
                                            ELSE Put(st.cs, in.Txid, updatedOuts)])

RECURSIVE UpdateTxs(_, _)
UpdateTxs(txs, st) ==
    IF Len(txs) = 0 \/ st.res # "ok" THEN st
    ELSE LET tx == Head(txs)
             st1 == IF IsCoinbase(tx) THEN st ELSE UpdateInputs(tx.Vin, st)
         IN  IF st1.res # "ok" THEN st1
             ELSE IF Len(tx.ID) = 0 THEN [st1 EXCEPT !.res = "error"]
             ELSE UpdateTxs(Tail(txs), [st1 EXCEPT !.cs = Put(st1.cs, tx.ID, tx.Vout)])

\* UTXOSet.Update: [res, cs]; when res is not "ok" the database transaction
\* is rolled back and the bucket is as before.
Update(cs, block) ==
    LET st == UpdateTxs(block.Transactions, [res |-> "ok", cs |-> cs])
    IN  IF st.res = "ok" THEN st ELSE [res |-> st.res, cs |-> cs]

\* The scan of one stored entry in UTXOSet.FindSpendableOutputs.  st is
\* [acc, picked]; an output's index is its position in the stored list.
RECURSIVE ScanOuts(_, _, _, _, _)
ScanOuts(outs, outIdx, pubkeyHash, amount, st) ==
    IF outIdx >= Len(outs) THEN st
    ELSE IF outs[outIdx + 1].PubKeyHash = pubkeyHash /\ st.acc < amount
    THEN LET st1 == [acc |-> st.acc + outs[outIdx + 1].Value,
                     picked |-> Append(st.picked, outIdx)]
         IN  IF st1.acc >= amount THEN st1
             ELSE ScanOuts(outs, outIdx + 1, pubkeyHash, amount, st1)
    ELSE ScanOuts(outs, outIdx + 1, pubkeyHash, amount, st)

\* UTXOSet.FindSpendableOutputs reporting the amount as found whatever the
\* index holds.
FindSpendableOutputsEnough(cs, order, pubkeyHash, amount, st) ==
    [acc |-> amount, refs |-> st.refs]

\* UTXOSet.FindSpendableOutputs over the keys in cursor order: [acc, refs],
\* refs the sequence of <<txid, index>> picked.
RECURSIVE FindSpendableOutputs(_, _, _, _, _)
FindSpendableOutputs(cs, order, pubkeyHash, amount, st) ==
    IF Len(order) = 0 THEN st
    ELSE LET k == Head(order)
             one == ScanOuts(cs[k], 0, pubkeyHash, amount,
                             [acc |-> st.acc, picked |-> <<>>])
             refs == [i \in DOMAIN one.picked |-> <<k, one.picked[i]>>]
         IN  FindSpendableOutputs(cs, Tail(order), pubkeyHash, amount,
                                  [acc |-> one.acc, refs |-> st.refs \o refs])

\* The orders in which a cursor or a map range can present a set of keys.
Orders(S) == {o \in [1 .. Cardinality(S) -> S] : \A k \in S : \E i \in DOMAIN o : o[i] = k}

\* transaction.NewUTXOTransaction once the outputs are found and suffice.
NewUTXOTransaction(w, to, amount, found) ==
    LET inputs == [i \in DOMAIN found.refs |->
                      TxInput(found.refs[i][1], found.refs[i][2], NilBytes, w.PublicKey)]
        change == IF found.acc > amount
                  THEN <<TxOutput(found.acc - amount, HashPubKey(w.PublicKey))>>
                  ELSE <<>>
        body == [ID |-> NilBytes, Vin |-> inputs,
                 Vout |-> <<TxOutput(amount, to)>> \o change]
    IN  [body EXCEPT !.ID = TxHash(body)]

\* Transaction.Sign: [res, tx] with res "ok", "error" or "panic".
Sign(tx, w, sigLen, prevTXs) ==
    IF IsCoinbase(tx) THEN [res |-> "ok", tx |-> tx]
    ELSE IF \E i \in CheckedInputs(tx) : HexKey(tx.Vin[i].Txid) \notin DOMAIN prevTXs
    THEN [res |-> "error", tx |-> tx]
    ELSE IF \E i \in CheckedInputs(tx) :
              ~InRange(prevTXs[HexKey(tx.Vin[i].Txid)], tx.Vin[i].Vout)
    THEN [res |-> "panic", tx |-> tx]
    ELSE [res |-> "ok",
          tx |-> [tx EXCEPT !.Vin = [i \in DOMAIN tx.Vin |->
                    IF i \in CheckedInputs(tx)
                    THEN [tx.Vin[i] EXCEPT !.Signature =
                            SignData(w.D, InputDigest(tx, i,
                                prevTXs[HexKey(tx.Vin[i].Txid)]), sigLen)]
                    ELSE tx.Vin[i]]]]

\* Blockchain.SignTransaction: [res, tx].
SignTransaction(tx, w, sigLen, tipHash, store) ==
    IF IsCoinbase(tx) THEN [res |-> "ok", tx |-> tx]
    ELSE IF ~AllFound(tx, tipHash, store) THEN [res |-> "error", tx |-> tx]
    ELSE Sign(tx, w, sigLen, PrevTXsHex(tx, tipHash, store))

(***************************************************************************)
(* The engine.                                                             *)
(***************************************************************************)
\* time.Now().Unix() when a block is built: one tick per stored block.
Now == Cardinality(DOMAIN blocks)

\* The first result other than "ok" in a sequence of results, else "ok".
FirstFailure(results) ==
    LET bad == {i \in DOMAIN results : results[i] # "ok"}
    IN  IF bad = {} THEN "ok" ELSE results[CHOOSE i \in bad : \A j \in bad : i <= j]

\* Blockchain.MineBlock up to the store commit: [res, block], with res "ok"
\* when the proposed block passed validation.
MineBlock(transactions, proposerWallet, randNum, sigLen) ==
    LET verified == FirstFailure([i \in DOMAIN transactions |->
                        VerifyTransaction(transactions[i], tip, blocks)])
        lastHashLocal == tip
        prop == PoSProposeBlock(validatorSet, randNum, proposerWallet,
                                transactions, lastHashLocal, Now, sigLen)
        valid == PoSValidateBlock(validatorSet, prop.block,
                                  PrevTXsRaw(transactions, tip, blocks))
    IN  IF verified = "panic" THEN [res |-> "verify_panic", block |-> prop.block]
        ELSE IF verified # "ok" THEN [res |-> "verify_error", block |-> prop.block]
        ELSE IF ~prop.ok THEN [res |-> "propose_error", block |-> prop.block]
        ELSE IF valid = "panic" THEN [res |-> "validate_panic", block |-> prop.block]
        ELSE IF valid # "ok" THEN [res |-> "validate_error", block |-> prop.block]
        ELSE [res |-> "ok", block |-> prop.block]

\* PoSConsensus.loadValidators: the stored validators in key order.
RECURSIVE LoadValidators(_)
LoadValidators(db) ==
    IF DOMAIN db = {} THEN <<>>
    ELSE LET k == CHOOSE x \in DOMAIN db : \A y \in DOMAIN db : x <= y
         IN  <<db[k]>> \o LoadValidators(Delete(db, k))

(***************************************************************************)
(* What callers hand to the engine.                                        *)
(***************************************************************************)
GenesisCoinbaseData == 99     \* genesisCoinbaseData
FixedCoinbaseData == 100      \* a memo a caller passes to NewCoinbaseTx
GenesisStake == 1000          \* the creator's initial stake

\* The memo NewCoinbaseTx draws when data is "": 20 random bytes, new for
\* each caller and each time.
RandomCoinbaseData(caller) == 200 + 10 * Now + caller

\* The wallet that creates the chain is the honest one.
Creators == {WalletA}
StakeAmounts == {0, 100}
SendAmounts == {10, 60}
\* Database faults injected into one call: none, the commit of the block
\* store fails, the write of the index fails.  One failed commit at a time:
\* the next is injected only once the in-memory tip names a stored block.
FailPoints == {"none", "update"} \cup (IF tip \in DOMAIN blocks THEN {"commit"} ELSE {})

Range(f) == {f[x] : x \in DOMAIN f}

\* Ids a submitted transaction may refer to: none, those of the stored
\* chain, and one of no transaction at all.
UnknownID == Sha256(<<<<>>, <<>>>>)

RefIDs == {NilBytes, UnknownID}
          \cup {t.ID : t \in Range(AllTxs(ChainFrom(lastHash, blocks)))}

\* A transaction built outside the CLI: one input (or the same input twice)
\* carrying the signer's key, one output to the signer, signed by the signer
\* where the reference can be resolved.
Spend(w, txid, vout, dup) ==
    LET in == TxInput(txid, vout, NilBytes, w.PublicKey)
        body == [ID |-> NilBytes,
                 Vin |-> IF dup THEN <<in, in>> ELSE <<in>>,
                 Vout |-> <<TxOutput(10, HashPubKey(w.PublicKey))>>]
        tx == [body EXCEPT !.ID = TxHash(body)]
        signed == SignTransaction(tx, w, 64, tip, blocks)
    IN  IF signed.res = "ok" THEN signed.tx ELSE tx

Spends(w) ==
    {Spend(w, txid, vout, FALSE) : txid \in RefIDs, vout \in {0, 1}}
    \cup {Spend(w, txid, 0, TRUE) : txid \in RefIDs}

\* The transaction lists submitted to MineBlock by proposer w.
TxLists(w) ==
    LET cb == NewCoinbaseTx(w.PublicKey, RandomCoinbaseData(0))
    IN  {<<>>, <<cb>>, <<NewCoinbaseTx(w.PublicKey, FixedCoinbaseData)>>,
         <<[cb EXCEPT !.ID = NilBytes]>>}
        \cup {<<cb, sp>> : sp \in Spends(w)}

(***************************************************************************)
(* The ledger: one action per call.                                        *)
(***************************************************************************)
\* Blockchain.mu as NewBlockchain and CreateBlockchain build it.
Unlocked == 0

Outcome(op, res, upd, txs) == [op |-> op, res |-> res, upd |-> upd, txs |-> txs]

Init ==
    /\ dbExists = FALSE
    /\ blocks = EmptyMap
    /\ lastHash = NilBytes
    /\ tip = NilBytes
    /\ utxoBucket = FALSE
    /\ chainstate = EmptyMap
    /\ validatorSet = <<>>
    /\ validatorsDB = EmptyMap
    /\ last = Outcome("none", "none", "none", <<>>)
    /\ mu = Unlocked
    /\ pc = EmptyMap
    /\ loc = EmptyMap
    /\ pow = EmptyMap

\* The genesis block CreateBlockchain has the PoS consensus propose, the
\* miner being the only validator: [ok, block].
GenesisBlock(minerWallet, now, sigLen) ==
    PoSProposeBlock(AddStakeSet(<<>>, GenesisStake, minerWallet), 0, minerWallet,
                    <<NewCoinbaseTx(minerWallet.PublicKey, GenesisCoinbaseData)>>,
                    NilBytes, now, sigLen)

\* CreateBlockchain(minerWallet).
CreateBlockchain(minerWallet, sigLen) ==
    /\ ~dbExists
    /\ LET vs == AddStakeSet(<<>>, GenesisStake, minerWallet)
           prop == GenesisBlock(minerWallet, Now, sigLen)
           genesisBlock == prop.block
           store == Put(EmptyMap, genesisBlock.Hash, genesisBlock)
           idx == Reindex(genesisBlock.Hash, store)
       IN  /\ prop.ok
           /\ dbExists' = TRUE
           /\ validatorSet' = vs
           /\ validatorsDB' = Put(EmptyMap, HashPubKey(minerWallet.PublicKey), vs[1])
           /\ blocks' = store
           /\ lastHash' = genesisBlock.Hash
           /\ tip' = genesisBlock.Hash
           /\ utxoBucket' = TRUE
           /\ chainstate' = idx.cs
           /\ last' = Outcome("create", "ok", "none", <<>>)
    /\ UNCHANGED <<mu, pc, loc, pow>>

\* NewBlockchain(): a process opens the existing database.
NewBlockchain ==
    /\ dbExists
    /\ tip' = lastHash
    /\ validatorSet' = LoadValidators(validatorsDB)
    /\ last' = Outcome("open", "ok", "none", <<>>)
    /\ UNCHANGED <<dbExists, blocks, lastHash, utxoBucket, chainstate,
                   validatorsDB, mu, pc, loc, pow>>

\* PoSConsensus.AddStake(stakeAmount, w) through the CLI's addstake.
AddStake(stakeAmount, w) ==
    /\ dbExists
    /\ TotalStake(validatorSet) <= GenesisStake + MinStake * (MaxStakeCalls - 1)
    /\ IF stakeAmount <= 0
       THEN /\ last' = Outcome("stake", "error", "none", <<>>)
            /\ UNCHANGED <<validatorSet, validatorsDB>>
       ELSE LET vs == AddStakeSet(validatorSet, stakeAmount, w)
                v == CHOOSE x \in Range(vs) : x.PublicKey = w.PublicKey
            IN  /\ validatorSet' = vs
                /\ validatorsDB' = Put(validatorsDB, HashPubKey(w.PublicKey), v)
                /\ last' = Outcome("stake", "ok", "none", <<>>)
    /\ UNCHANGED <<dbExists, blocks, lastHash, tip, utxoBucket, chainstate,
                   mu, pc, loc, pow>>

\* The store commit of MineBlock for a validated block, and the caller's
\* UTXOSet.Update of the returned block.  The commit or the index write may
\* fail in the database (fail); a panic ends the process, and the next call
\* runs in one that has opened the database again.
CommitAndUpdate(op, transactions, newBlock, fail) ==
    IF fail = "commit"
    THEN /\ tip' = newBlock.Hash
         /\ last' = Outcome(op, "commit_error", "none", transactions)
         /\ UNCHANGED <<blocks, lastHash, chainstate, validatorSet>>
    ELSE LET u == IF fail = "update" THEN [res |-> "io_error", cs |-> chainstate]
                  ELSE IF ~utxoBucket THEN [res |-> "error", cs |-> chainstate]
                  ELSE Update(chainstate, newBlock)
         IN  /\ blocks' = Put(blocks, newBlock.Hash, newBlock)
             /\ lastHash' = newBlock.Hash
             /\ tip' = newBlock.Hash
             /\ chainstate' = u.cs
             /\ validatorSet' = IF u.res = "panic"
                                THEN LoadValidators(validatorsDB) ELSE validatorSet
             /\ last' = Outcome(op, "committed", u.res, transactions)

\* A call that failed before the commit: nothing is written; after a panic
\* the in-memory tip and validator set are those of a reopened database.
Failed(op, res, transactions) ==
    /\ last' = Outcome(op, res, "none",
                       IF op = "append" /\ res \notin {"verify_error", "verify_panic"}
                       THEN transactions ELSE <<>>)
    /\ IF res \in {"verify_panic", "validate_panic", "sign_panic"}
       THEN tip' = lastHash /\ validatorSet' = LoadValidators(validatorsDB)
       ELSE UNCHANGED <<tip, validatorSet>>
    /\ UNCHANGED <<blocks, lastHash, chainstate>>

\* Blockchain.MineBlock(transactions, proposerWallet) followed, when it
\* returns a block, by UTXOSet.Update(newBlock).
MineBlockAndUpdate(transactions, proposerWallet) ==
    /\ dbExists
    /\ Cardinality(DOMAIN blocks) <= MaxBlocks
    /\ \E randNum \in RandNums(validatorSet), sigLen \in SigLens :
          LET m == MineBlock(transactions, proposerWallet, randNum, sigLen)
          IN  IF m.res # "ok" THEN Failed("append", m.res, transactions)
              ELSE \E fail \in FailPoints :
                      CommitAndUpdate("append", transactions, m.block, fail)
    /\ UNCHANGED <<dbExists, utxoBucket, validatorsDB, mu, pc, loc, pow>>

\* The CLI's send(from, to, amount).
Send(fromWallet, toWallet, amount) ==
    /\ dbExists
    /\ Cardinality(DOMAIN blocks) <= MaxBlocks
    /\ IF ~utxoBucket THEN Failed("send", "tx_error", <<>>)
       ELSE \E order \in Orders(DOMAIN chainstate), txSigLen \in SigLens :
          LET found == FindSpendableOutputs(chainstate, order,
                          HashPubKey(fromWallet.PublicKey), amount,
                          [acc |-> 0, refs |-> <<>>])
              tx == NewUTXOTransaction(fromWallet, HashPubKey(toWallet.PublicKey),
                                       amount, found)
              signed == SignTransaction(tx, fromWallet, txSigLen, tip, blocks)
              cbTx == NewCoinbaseTx(fromWallet.PublicKey, RandomCoinbaseData(0))
              txs == <<cbTx, signed.tx>>
          IN  IF found.acc < amount THEN Failed("send", "insufficient_funds", <<>>)
              ELSE IF signed.res = "panic" THEN Failed("send", "sign_panic", <<tx>>)
              ELSE IF signed.res # "ok" THEN Failed("send", "sign_error", <<tx>>)
              ELSE \E randNum \in RandNums(validatorSet), sigLen \in SigLens :
                      LET m == MineBlock(txs, fromWallet, randNum, sigLen)
                      IN  IF m.res # "ok" THEN Failed("send", m.res, txs)
                          ELSE \E fail \in FailPoints :
                                  CommitAndUpdate("send", txs, m.block, fail)
    /\ UNCHANGED <<dbExists, utxoBucket, validatorsDB, mu, pc, loc, pow>>

\* The CLI's reindexutxo: UTXOSet.Reindex().
ReindexUTXO ==
    /\ dbExists
    /\ LET idx == Reindex(tip, blocks)
       IN  /\ chainstate' = idx.cs
           /\ utxoBucket' = TRUE
           /\ last' = Outcome("reindex", idx.res, "none", <<>>)
    /\ UNCHANGED <<dbExists, blocks, lastHash, tip, validatorSet, validatorsDB,
                   mu, pc, loc, pow>>

Next ==
    \/ \E w \in Creators, sigLen \in SigLens : CreateBlockchain(w, sigLen)
    \/ NewBlockchain
    \/ \E w \in Wallets, a \in StakeAmounts : AddStake(a, w)
    \/ \E w \in Wallets : \E txs \in TxLists(w) : MineBlockAndUpdate(txs, w)
    \/ \E f \in Wallets, t \in Wallets, a \in SendAmounts : Send(f, t, a)
    \/ ReindexUTXO

Spec == Init /\ [][Next]_vars

(***************************************************************************)
(* Properties of the ledger.                                               *)
(***************************************************************************)
\* The transactions of a chain (given newest block first), oldest first.
RECURSIVE TxsInOrder(_)
TxsInOrder(chain) ==
    IF Len(chain) = 0 THEN <<>>
    ELSE TxsInOrder(Tail(chain)) \o Head(chain).Transactions

\* Every output of a sequence of transactions as <<txid, index, output>>.
RECURSIVE OutputsSeq(_)
OutputsSeq(txs) ==
    IF Len(txs) = 0 THEN <<>>
    ELSE [i \in DOMAIN Head(txs).Vout |-> <<Head(txs).ID, i - 1, Head(txs).Vout[i]>>]
         \o OutputsSeq(Tail(txs))

\* The <<txid, index>> pairs the non-coinbase inputs of txs refer to.
SpentRefs(txs) ==
    UNION {{<<txs[p].Vin[i].Txid, txs[p].Vin[i].Vout>> : i \in DOMAIN txs[p].Vin} :
              p \in {q \in DOMAIN txs : ~IsCoinbase(txs[q])}}

\* The outputs of the chain no input of the chain refers to.
UnspentSeq(chain) ==
    LET txs == TxsInOrder(chain)
    IN  SelectSeq(OutputsSeq(txs), LAMBDA e : <<e[1], e[2]>> \notin SpentRefs(txs))

\* The outputs the index holds under key id, in stored order.
IndexEntries(cs) == [id \in DOMAIN cs |-> cs[id]]

\* Every key of the index is the id of a transaction of the chain with an
\* unspent output, and under it the index holds each unspent output of the
\* chain with that id once: as many as the chain has, in the chain's order.
IndexExact(cs, chain) ==
    LET u == UnspentSeq(chain)
        ids == {u[i][1] : i \in DOMAIN u}
        of(id) == SelectSeq(u, LAMBDA e : e[1] = id)
    IN  /\ \A i, j \in DOMAIN u : i # j => <<u[i][1], u[i][2]>> # <<u[j][1], u[j][2]>>
        /\ DOMAIN IndexEntries(cs) = ids
        /\ \A id \in ids :
              IndexEntries(cs)[id] = [i \in DOMAIN of(id) |-> of(id)[i][3]]

StoredChain == ChainFrom(lastHash, blocks)

\* The step is a call that committed a block and whose UTXOSet.Update of
\* that block returned without error.
AppendedAndUpdated ==
    /\ last'.op \in {"append", "send"}
    /\ last'.res = "committed"
    /\ last'.upd = "ok"

\* C1: after create, and after every successful append followed by
\* UTXOSet.Update of the committed block, the index holds exactly the
\* outputs created by committed transactions and not spent by a committed
\* input.
C1_IndexHoldsExactlyUnspent ==
    /\ [](last.op = "create" => IndexExact(chainstate, StoredChain))
    /\ [][(IndexExact(chainstate, StoredChain) /\ AppendedAndUpdated)
             => IndexExact(chainstate', ChainFrom(lastHash', blocks'))]_vars

\* A second block was committed on a chain whose index was exact, and
\* UTXOSet.Update of it returned without error.
C1_Witness ==
    /\ last.op = "append" /\ last.res = "committed" /\ last.upd = "ok"
    /\ Len(StoredChain) = 3
    /\ IndexExact(chainstate, StoredChain)

\* The inputs of the committed non-coinbase transactions, as <<p, i>>:
\* input i of the p-th transaction of the stored chain.
CommittedInputs(txs) ==
    UNION {{<<p, i>> : i \in DOMAIN txs[p].Vin} :
              p \in {q \in DOMAIN txs : ~IsCoinbase(txs[q])}}

\* C2: no committed block contains an input that refers to an output that
\* was never created, or that another committed input (of an earlier block
\* or of the same block) also refers to.
C2_NoCommittedInputOfSpentOrMissing ==
    LET txs == TxsInOrder(StoredChain)
    IN  \A e \in CommittedInputs(txs) :
           LET in == txs[e[1]].Vin[e[2]]
           IN  /\ \E q \in 1 .. (e[1] - 1) :
                     txs[q].ID = in.Txid /\ InRange(txs[q], in.Vout)
               /\ \A f \in CommittedInputs(txs) \ {e} :
                     <<txs[f[1]].Vin[f[2]].Txid, txs[f[1]].Vin[f[2]].Vout>>
                        # <<in.Txid, in.Vout>>

\* A committed block holds a non-coinbase transaction.
C2_Witness ==
    CommittedInputs(TxsInOrder(StoredChain)) # {}

\* The submitted transactions that passed MineBlock's VerifyTransaction
\* step in the last call (the in-memory tip has not moved since).
VerifiedTxs ==
    IF last.op = "append" /\ last.res \in {"propose_error", "validate_error"}
    THEN {last.txs[i] : i \in {j \in DOMAIN last.txs : ~IsCoinbase(last.txs[j])}}
    ELSE {}

\* C3: every input of a transaction that Verify accepted carries a public
\* key whose hash is the pubkey_hash of the output it refers to.
C3_AcceptedInputsCarryOwnersKey ==
    \A tx \in VerifiedTxs :
       Verify(tx, PrevTXsHex(tx, tip, blocks)) = "ok"
       => \A i \in CheckedInputs(tx) :
             LET prevTx == PrevTXsHex(tx, tip, blocks)[HexKey(tx.Vin[i].Txid)]
             IN  HashPubKey(tx.Vin[i].PubKey)
                    = prevTx.Vout[tx.Vin[i].Vout + 1].PubKeyHash

\* Verify accepted a transaction one of whose inputs names an output of the
\* stored chain.
C3_Witness ==
    \E tx \in VerifiedTxs :
       /\ Verify(tx, PrevTXsHex(tx, tip, blocks)) = "ok"
       /\ CheckedInputs(tx) # {}

\* C4: an append of which any step failed (verification, proposal,
\* validation, the store commit, the index update) leaves the in-memory
\* tip, the stored tip, the stored blocks and the index as they were.
C4_FailedAppendChangesNothing ==
    [][(/\ last'.op \in {"append", "send"}
        /\ last'.res \notin {"verify_panic", "validate_panic", "sign_panic"}
        /\ (last'.res # "committed" \/ last'.upd # "ok"))
          => UNCHANGED <<tip, lastHash, blocks, chainstate>>]_vars

\* An append failed in validation and left the ledger with two blocks.
C4_Witness ==
    /\ last.op = "append" /\ last.res = "validate_error"
    /\ Cardinality(DOMAIN blocks) = 2

C6_ChainIsWellFormed ==
    dbExists =>
       LET chain == ChainFrom(tip, blocks)
       IN  /\ tip \in DOMAIN blocks
           /\ \A h \in DOMAIN blocks :
                 Len(blocks[h].PrevBlockHash) = 0
                    \/ blocks[h].PrevBlockHash \in DOMAIN blocks
           /\ Len(chain) = Cardinality(DOMAIN blocks)
           /\ {chain[i].Hash : i \in DOMAIN chain} = DOMAIN blocks
           /\ Len(chain[Len(chain)].PrevBlockHash) = 0

\* Three blocks are stored and the walk from the tip visits all of them.
C6_Witness ==
    /\ dbExists
    /\ Cardinality(DOMAIN blocks) = 3
    /\ Len(ChainFrom(tip, blocks)) = 3

(***************************************************************************)
(* Proof of work.  Digests are HashWidth bits wide in place of 256 and the *)
(* nonce search stops at MaxNonce in place of math.MaxInt64.  The number a *)
(* digest spells is not known in advance: every assignment of numbers to   *)
(* the data the search can hash is considered.                             *)
(***************************************************************************)
HashWidth == 2
MaxNonce == 2

TargetBitsSet == 1 .. HashWidth

\* The block ProposeBlock is asked to mine.
PoWTransactions == <<NewCoinbaseTx(WalletA.PublicKey, FixedCoinbaseData)>>

\* The data Run can hash for a block with these target bits, by nonce.
RunData(targetBits) ==
    {PrepareData(NewBlock(PoWTransactions, NilBytes, 0), nonce, targetBits) :
        nonce \in 0 .. MaxNonce}

\* hashInt.SetBytes(sha256.Sum256(data)): the digest of data as a number.
HashInt(data) == pow.oracle[data]

\* pow.NewProofOfWork(b, targetBits): target = 1 << (width - targetBits).
NewProofOfWork(b, targetBits) ==
    [block |-> b, target |-> 2 ^ (HashWidth - targetBits), targetBits |-> targetBits]

InitPoW ==
    /\ dbExists = FALSE
    /\ blocks = EmptyMap
    /\ lastHash = NilBytes
    /\ tip = NilBytes
    /\ utxoBucket = FALSE
    /\ chainstate = EmptyMap
    /\ validatorSet = <<>>
    /\ validatorsDB = EmptyMap
    /\ last = Outcome("none", "none", "none", <<>>)
    /\ mu = Unlocked
    /\ pc = EmptyMap
    /\ loc = EmptyMap
    /\ \E targetBits \in TargetBitsSet :
          \E oracle \in [RunData(targetBits) -> 0 .. (2 ^ HashWidth - 1)] :
             pow = [pc |-> "idle", oracle |-> oracle, nonce |-> 0, valid |-> "none",
                    work |-> NewProofOfWork(NewBlock(<<>>, NilBytes, 0), targetBits)]

LedgerVars == <<dbExists, blocks, lastHash, tip, utxoBucket, chainstate,
                validatorSet, validatorsDB, last, mu, pc, loc>>

\* POWConsensus.ProposeBlock up to the call of Run; the target bits are
\* those getAdjustedTargetBits returned.
PoWProposeBlock ==
    /\ pow.pc = "idle"
    /\ pow' = [pow EXCEPT
                 !.work = NewProofOfWork(NewBlock(PoWTransactions, NilBytes, Now),
                                         pow.work.targetBits),
                 !.nonce = 0,
                 !.pc = "run"]
    /\ UNCHANGED LedgerVars

\* One turn of the loop of ProofOfWork.Run.
RunLoop ==
    /\ pow.pc = "run"
    /\ IF pow.nonce < MaxNonce
       THEN IF HashInt(PrepareData(pow.work.block, pow.nonce, pow.work.targetBits))
                  < pow.work.target
            THEN pow' = [pow EXCEPT !.pc = "mined"]
            ELSE pow' = [pow EXCEPT !.nonce = @ + 1]
       ELSE pow' = [pow EXCEPT !.pc = "mined"]
    /\ UNCHANGED LedgerVars

\* The end of Run: SetNonce, UpdateHash, SetBits, in this order; then
\* ProposeBlock returns the block.
RunFinish ==
    /\ pow.pc = "mined"
    /\ LET b1 == [pow.work.block EXCEPT !.Nonce = pow.nonce]
           b2 == UpdateHash(b1)
           b3 == [b2 EXCEPT !.Bits = pow.work.targetBits]
       IN  pow' = [pow EXCEPT !.work.block = b3, !.pc = "returned"]
    /\ UNCHANGED LedgerVars

\* Block.GetNonce: b.mu.RLock() followed by a deferred b.mu.Unlock().  The
\* write-unlock of a mutex held only for reading is a fatal error of the Go
\* runtime ("sync: Unlock of unlocked RWMutex"), which ends the process.
GetNonce(b) == [fatal |-> TRUE, nonce |-> b.Nonce]

\* ProofOfWork.Validate: "true" or "false", or "fatal" when the process
\* ends inside the call.
Validate(work) ==
    LET n == GetNonce(work.block)
    IN  IF n.fatal THEN "fatal"
        ELSE IF HashInt(PrepareData(work.block, n.nonce, work.targetBits)) < work.target
        THEN "true" ELSE "false"

\* POWConsensus.ValidateBlock(b, prevTXs): "error" when the structural
\* validation fails, else what Validate gives for the block's own bits.
PoWValidateBlockResult(b, prevTXs) ==
    LET basic == ValidateBlock(b, prevTXs)
    IN  IF basic # "ok" THEN basic
        ELSE Validate(NewProofOfWork(b, b.Bits))

\* The caller hands the block ProposeBlock returned to ValidateBlock.
PoWValidateBlock ==
    /\ pow.pc = "returned"
    /\ pow' = [pow EXCEPT !.pc = "validated",
                          !.valid = PoWValidateBlockResult(pow.work.block, EmptyMap)]
    /\ UNCHANGED LedgerVars

NextPoW == PoWProposeBlock \/ RunLoop \/ RunFinish \/ PoWValidateBlock

SpecPoW == InitPoW /\ [][NextPoW]_vars

\* C9: the block ProposeBlock returns records bits and a nonce for which the
\* digest of PrepareData(nonce, bits), read as a number, is below
\* 1 << (width - bits), also when the search ran to the maximum nonce.
C9_ReturnedBlockMeetsTarget ==
    pow.pc = "returned" =>
       HashInt(PrepareData(pow.work.block, pow.work.block.Nonce, pow.work.block.Bits))
          < 2 ^ (HashWidth - pow.work.block.Bits)

\* ProposeBlock returned a block whose nonce the search found below the
\* maximum.
C9_Witness ==
    /\ pow.pc = "returned"
    /\ pow.work.block.Nonce < MaxNonce
    /\ pow.work.block.Bits = pow.work.targetBits

\* C10: after mining, the block's Hash is the digest of
\* PrepareData(block.Nonce, block.Bits).
C10_HashMatchesNonceAndBits ==
    pow.pc = "returned" =>
       pow.work.block.Hash
          = Sha256(PrepareData(pow.work.block, pow.work.block.Nonce,
                               pow.work.block.Bits))

\* ProposeBlock returned a block carrying a hash.
C10_Witness ==
    /\ pow.pc = "returned"
    /\ Len(pow.work.block.Hash) > 0
    /\ pow.work.block.Nonce > 0

\* C11: the block PoW ProposeBlock returned is accepted by PoW
\* ValidateBlock: the call returns true, without error and without fault.
C11_ProposedBlockValidates ==
    pow.pc = "validated" => pow.valid = "true"

\* ValidateBlock was called on a block whose coinbase-only transaction list
\* passes the structural validation.
C11_Witness ==
    /\ pow.pc = "validated"
    /\ ValidateBlock(pow.work.block, EmptyMap) = "ok"
    /\ IsCoinbase(pow.work.block.Transactions[1])

(***************************************************************************)
(* Concurrent callers of one engine: two threads that each append blocks   *)
(* (MineBlock, then UTXOSet.Update of the block it returned) and a reader. *)
(* The chain was created by WalletA and WalletM has staked MinStake.       *)
(***************************************************************************)
Threads == {1, 2}
Reader == 0

\* bc.mu.Lock() can be taken.
TryLock(t) == mu = Unlocked

InitConc ==
    LET genesisBlock == GenesisBlock(WalletA, 0, 64).block
        store == Put(EmptyMap, genesisBlock.Hash, genesisBlock)
        vs == AddStakeSet(AddStakeSet(<<>>, GenesisStake, WalletA), MinStake, WalletM)
    IN  /\ dbExists = TRUE
        /\ blocks = store
        /\ lastHash = genesisBlock.Hash
        /\ tip = genesisBlock.Hash
        /\ utxoBucket = TRUE
        /\ chainstate = Reindex(genesisBlock.Hash, store).cs
        /\ validatorSet = vs
        /\ validatorsDB = [k \in {HashPubKey(vs[i].PublicKey) : i \in DOMAIN vs} |->
                              CHOOSE v \in Range(vs) : HashPubKey(v.PublicKey) = k]
        /\ last = Outcome("create", "ok", "none", <<>>)
        /\ mu = Unlocked
        /\ pc = [p \in Threads \cup {Reader} |-> "idle"]
        /\ loc = [p \in Threads \cup {Reader} |-> [res |-> "none"]]
        /\ pow = EmptyMap

StoreVars == <<dbExists, utxoBucket, validatorSet, validatorsDB, last, pow>>

\* MineBlock: bc.mu.Lock() is taken.  The caller has built the coinbase
\* transaction it submits; start is the tip as the call begins.
MineBlockLock(t) ==
    /\ pc[t] = "idle"
    /\ Cardinality(DOMAIN blocks) <= MaxBlocks
    /\ TryLock(t)
    /\ mu' = t
    /\ pc' = [pc EXCEPT ![t] = "locked"]
    /\ loc' = [loc EXCEPT ![t] =
                 [res |-> "none", start |-> tip,
                  txs |-> <<NewCoinbaseTx(WalletM.PublicKey, RandomCoinbaseData(t))>>]]
    /\ UNCHANGED <<blocks, lastHash, tip, chainstate>>
    /\ UNCHANGED StoreVars

\* MineBlock: verification, lastHash := bc.tip, proposal and validation.
MineBlockPropose(t) ==
    /\ pc[t] = "locked"
    /\ \E randNum \in RandNums(validatorSet), sigLen \in SigLens :
          LET m == MineBlock(loc[t].txs, WalletM, randNum, sigLen)
          IN  IF m.res = "ok"
              THEN /\ pc' = [pc EXCEPT ![t] = "commit"]
                   /\ loc' = [loc EXCEPT ![t] =
                                [res |-> "ok", start |-> loc[t].start,
                                 txs |-> loc[t].txs, block |-> m.block]]
              ELSE /\ pc' = [pc EXCEPT ![t] = "unlock"]
                   /\ loc' = [loc EXCEPT ![t].res = m.res]
    /\ UNCHANGED <<mu, blocks, lastHash, tip, chainstate>>
    /\ UNCHANGED StoreVars

\* MineBlock: the store commit, which may fail in the database.
MineBlockCommit(t) ==
    /\ pc[t] = "commit"
    /\ \E fail \in FailPoints \ {"update"} :
          IF fail = "commit"
          THEN /\ tip' = loc[t].block.Hash
               /\ loc' = [loc EXCEPT ![t].res = "commit_error"]
               /\ UNCHANGED <<blocks, lastHash>>
          ELSE /\ blocks' = Put(blocks, loc[t].block.Hash, loc[t].block)
               /\ lastHash' = loc[t].block.Hash
               /\ tip' = loc[t].block.Hash
               /\ loc' = [loc EXCEPT ![t].res = "committed"]
    /\ pc' = [pc EXCEPT ![t] = "unlock"]
    /\ UNCHANGED <<mu, chainstate>>
    /\ UNCHANGED StoreVars

\* MineBlock returns: the deferred bc.mu.Unlock().
MineBlockUnlock(t) ==
    /\ pc[t] = "unlock"
    /\ mu' = Unlocked
    /\ pc' = [pc EXCEPT ![t] = IF loc[t].res = "committed" THEN "update" ELSE "idle"]
    /\ UNCHANGED <<loc, blocks, lastHash, tip, chainstate>>
    /\ UNCHANGED StoreVars

\* The caller's UTXOSet.Update(newBlock): one database transaction.
UpdateIndex(t) ==
    /\ pc[t] = "update"
    /\ chainstate' = Update(chainstate, loc[t].block).cs
    /\ pc' = [pc EXCEPT ![t] = "idle"]
    /\ UNCHANGED <<mu, loc, blocks, lastHash, tip>>
    /\ UNCHANGED StoreVars

\* A reader: the tip through Blockchain.Iterator (under bc.mu.RLock()) and
\* the index through UTXOSet.FindUTXO, taken at one instant.
ReaderObserve ==
    /\ pc[Reader] = "idle"
    /\ mu = Unlocked
    /\ loc' = [loc EXCEPT ![Reader] = [res |-> "seen", tip |-> tip, index |-> chainstate]]
    /\ pc' = [pc EXCEPT ![Reader] = "seen"]
    /\ UNCHANGED <<mu, blocks, lastHash, tip, chainstate>>
    /\ UNCHANGED StoreVars

ReaderReturn ==
    /\ pc[Reader] = "seen"
    /\ pc' = [pc EXCEPT ![Reader] = "idle"]
    /\ loc' = [loc EXCEPT ![Reader] = [res |-> "none"]]
    /\ UNCHANGED <<mu, blocks, lastHash, tip, chainstate>>
    /\ UNCHANGED StoreVars

NextConc ==
    \/ \E t \in Threads : MineBlockLock(t)
    \/ \E t \in Threads : MineBlockPropose(t)
    \/ \E t \in Threads : MineBlockCommit(t)
    \/ \E t \in Threads : MineBlockUnlock(t)
    \/ \E t \in Threads : UpdateIndex(t)
    \/ ReaderObserve
    \/ ReaderReturn

SpecConc == InitConc /\ [][NextConc]_vars

\* C7: what a reader sees while appends run is the state before a commit or
\* the state after it: the index it sees is that of the chain below the tip
\* it sees.
C7_ReaderSeesTipWithItsIndex ==
    (pc[Reader] = "seen" /\ loc[Reader].tip \in DOMAIN blocks)
       => IndexExact(loc[Reader].index, ChainFrom(loc[Reader].tip, blocks))

\* The reader has seen a tip above the genesis block.
C7_Witness ==
    /\ pc[Reader] = "seen"
    /\ loc[Reader].tip \in DOMAIN blocks
    /\ Len(ChainFrom(loc[Reader].tip, blocks)) = 2

\* C8: MineBlock calls are serialized: a block about to be committed has as
\* previous hash the tip its call started from, which is still the tip; no
\* two stored blocks have the same previous hash; and the stored blocks are
\* one chain: the walk from the last committed block visits all of them and
\* ends at the genesis block.
C8_MineBlockSerialized ==
    /\ \A t \in Threads :
          pc[t] = "commit" =>
             /\ loc[t].block.PrevBlockHash = loc[t].start
             /\ loc[t].start = tip
    /\ \A g, h \in DOMAIN blocks :
          g # h => blocks[g].PrevBlockHash # blocks[h].PrevBlockHash
    /\ LET chain == ChainFrom(lastHash, blocks)
       IN  /\ Len(chain) = Cardinality(DOMAIN blocks)
           /\ Len(chain[Len(chain)].PrevBlockHash) = 0

\* Both threads have committed a block, one on top of the other.
C8_Witness ==
    /\ \A t \in Threads : loc[t].res = "committed" /\ loc[t].block.Hash \in DOMAIN blocks
    /\ Len(ChainFrom(lastHash, blocks)) = 3

(***************************************************************************)
(* Proof of stake on its own: a PoSConsensus over an empty database, as    *)
(* NewPoSConsensus builds it, to which wallets add stake, and whose        *)
(* ProposeBlock and ValidateBlock a caller uses directly.  loc holds the   *)
(* caller's position and what the calls returned; block is <<>> when       *)
(* ProposeBlock returned no block.                                         *)
(***************************************************************************)
MaxPoSStakeCalls == 4

PoSStakeAmounts == {0, 50, 100, 2 ^ (StakeBits - 2)}

PoSTxLists(w) == {<<NewCoinbaseTx(w.PublicKey, FixedCoinbaseData)>>, <<>>}

PoSIdle(calls) ==
    [pc |-> "idle", calls |-> calls, w |-> WalletA, rand |-> 0, sel |-> 0,
     res |-> "none", block |-> <<>>, tampered |-> FALSE, valid |-> "none"]

InitPoS ==
    /\ dbExists = FALSE
    /\ blocks = EmptyMap
    /\ lastHash = NilBytes
    /\ tip = NilBytes
    /\ utxoBucket = FALSE
    /\ chainstate = EmptyMap
    /\ validatorSet = <<>>
    /\ validatorsDB = EmptyMap
    /\ last = Outcome("none", "none", "none", <<>>)
    /\ mu = Unlocked
    /\ pc = EmptyMap
    /\ loc = PoSIdle(0)
    /\ pow = EmptyMap

PoSFixedVars == <<dbExists, blocks, lastHash, tip, utxoBucket, chainstate, last,
                  mu, pc, pow>>

\* PoSConsensus.AddStake(stakeAmount, w), with SaveValidator.
PoSAddStake(stakeAmount, w) ==
    /\ loc.pc = "idle"
    /\ loc.calls < MaxPoSStakeCalls
    /\ loc' = [loc EXCEPT !.calls = @ + 1]
    /\ IF stakeAmount <= 0
       THEN UNCHANGED <<validatorSet, validatorsDB>>
       ELSE LET vs == AddStakeSet(validatorSet, stakeAmount, w)
                v == CHOOSE x \in Range(vs) : x.PublicKey = w.PublicKey
            IN  /\ validatorSet' = vs
                /\ validatorsDB' = Put(validatorsDB, HashPubKey(w.PublicKey), v)
    /\ UNCHANGED PoSFixedVars

\* The numbers rand.Int(rand.Reader, totalStake) is sampled from here: 0,
\* and around every validator's share, the last number of its share and the
\* first number after it.
PoSRandNums(vs) ==
    {r \in {0} \cup RandNums(vs) \cup {n + 1 : n \in RandNums(vs)} :
        r = 0 \/ r < TotalStake(vs)}

\* PoSConsensus.ProposeBlock(w, transactions, [], []).
PoSPropose(w, transactions, sigLen) ==
    /\ loc.pc = "idle"
    /\ \E randNum \in PoSRandNums(validatorSet) :
          LET sel == selectValidator(validatorSet, randNum)
              prop == PoSProposeBlock(validatorSet, randNum, w, transactions,
                                      NilBytes, Now, sigLen)
          IN  loc' = [loc EXCEPT
                        !.pc = "proposed", !.w = w, !.rand = randNum, !.sel = sel,
                        !.res = IF prop.ok THEN "ok"
                                ELSE IF sel = 0 THEN "select_error"
                                ELSE "not_selected",
                        !.block = IF prop.ok THEN <<prop.block>> ELSE <<>>]
    /\ UNCHANGED <<validatorSet, validatorsDB>>
    /\ UNCHANGED PoSFixedVars

\* Signatures put on a proposed block by Block.SetSignature afterwards: none,
\* one made over other data, and one made over the block's digest with the
\* validator's public key bytes used as the private scalar.
TamperSignatures(b) ==
    {NilBytes,
     SignData(b.Signature[1], NilBytes, 64),
     SignData(b.ValidatorPubKey, Sha256(GetHashableDataPoS(b)), 64)}

PoSTamper ==
    /\ loc.pc = "proposed"
    /\ loc.block # <<>>
    /\ ~loc.tampered
    /\ \E sig \in TamperSignatures(loc.block[1]) \ {loc.block[1].Signature} :
          loc' = [loc EXCEPT !.tampered = TRUE,
                             !.block = <<[loc.block[1] EXCEPT !.Signature = sig]>>]
    /\ UNCHANGED <<validatorSet, validatorsDB>>
    /\ UNCHANGED PoSFixedVars

\* PoSConsensus.ValidateBlock(block, empty prevTXs).
PoSValidate ==
    /\ loc.pc = "proposed"
    /\ loc.block # <<>>
    /\ loc' = [loc EXCEPT !.pc = "validated",
                          !.valid = PoSValidateBlockReason(validatorSet, loc.block[1],
                                                           EmptyMap)]
    /\ UNCHANGED <<validatorSet, validatorsDB>>
    /\ UNCHANGED PoSFixedVars

\* The caller is done with the block.
PoSReturn ==
    /\ loc.pc \in {"proposed", "validated"}
    /\ loc' = PoSIdle(loc.calls)
    /\ UNCHANGED <<validatorSet, validatorsDB>>
    /\ UNCHANGED PoSFixedVars

NextPoS ==
    \/ \E w \in Wallets, a \in PoSStakeAmounts : PoSAddStake(a, w)
    \/ \E w \in Wallets, sigLen \in SigLens :
          \E txs \in PoSTxLists(w) : PoSPropose(w, txs, sigLen)
    \/ PoSTamper
    \/ PoSValidate
    \/ PoSReturn

SpecPoS == InitPoS /\ [][NextPoS]_vars

\* ecdsa.Verify under the key that pubKey encodes: the signature was made
\* over data by the private scalar of the wallet with that public key.
VerifiesUnderKey(pubKey, data, sig) ==
    \E w \in Wallets :
       /\ w.PublicKey = pubKey
       /\ Len(sig) = 3
       /\ EcdsaVerify(ScalarBaseMult(w.D), data, sig)

\* C12: PoS ValidateBlock returns true exactly when the block passes the
\* structural validation, carries a validator key and a signature, the
\* signature verifies under that key over the digest of the PoS header, and
\* the key is that of a validator of the set with stake at least MinStake.
\* So a block proposed by such a validator is accepted, and one whose
\* signature was replaced afterwards is rejected.
C12_PoSValidateIffFourConditions ==
    loc.pc = "validated" =>
       LET b == loc.block[1]
       IN  (loc.valid = "none")
              <=> /\ ValidateBlock(b, EmptyMap) = "ok"
                  /\ b.ValidatorPubKey # NilKey
                  /\ Len(b.Signature) > 0
                  /\ VerifiesUnderKey(b.ValidatorPubKey,
                                      Sha256(GetHashableDataPoS(b)), b.Signature)
                  /\ \E i \in DOMAIN validatorSet :
                        /\ validatorSet[i].PublicKey = b.ValidatorPubKey
                        /\ validatorSet[i].Stake >= MinStake

\* ValidateBlock has returned true for a block as its validator proposed it.
C12_Witness ==
    /\ loc.pc = "validated"
    /\ ~loc.tampered
    /\ loc.valid = "none"

\* The only validator, with a positive stake below MinStake, is the caller
\* and has proposed a block with one coinbase transaction.
OnlyValidatorBelowMinimum ==
    /\ Len(validatorSet) = 1
    /\ validatorSet[1].Stake \in 1 .. (MinStake - 1)
    /\ loc.w.PublicKey = validatorSet[1].PublicKey
    /\ ~loc.tampered

\* C13: with one validator whose stake is positive and below MinStake,
\* ProposeBlock by that validator returns a signed block, and ValidateBlock
\* of that block returns false for insufficient stake.
C13_LowStakeProposedThenRejected ==
    /\ (loc.pc = "proposed" /\ OnlyValidatorBelowMinimum)
          => /\ loc.res = "ok"
             /\ Len(loc.block[1].Signature) > 0
    /\ (/\ loc.pc = "validated" /\ OnlyValidatorBelowMinimum
        /\ Len(loc.block[1].Transactions) = 1)
          => loc.valid = "insufficient_stake"

\* ValidateBlock has refused, for its stake, the block of the only validator.
C13_Witness ==
    /\ loc.pc = "validated"
    /\ OnlyValidatorBelowMinimum
    /\ loc.valid = "insufficient_stake"

FirstExceeding(vs, r) ==
    LET hit == {i \in DOMAIN vs :
                   vs[i].Stake > 0 /\ r < TotalStake(SubSeq(vs, 1, i))}
    IN  IF hit = {} THEN 0 ELSE CHOOSE i \in hit : \A j \in hit : i <= j

\* C15: for the registry as the AddStake calls left it, with total positive
\* stake T: selectValidator fails when the registry is empty or T = 0, and
\* otherwise, for every r in 0 .. T - 1, returns the first validator whose
\* cumulative positive stake exceeds r, so that a validator is chosen for as
\* many values of r as its positive stake.
C15_SelectionFollowsStake ==
    loc.pc = "idle" =>
       LET vs == validatorSet
           T == TotalStake(vs)
       IN  IF Len(vs) = 0 \/ T = 0
           THEN selectValidator(vs, 0) = 0
           ELSE /\ \A r \in 0 .. (T - 1) :
                     /\ selectValidator(vs, r) # 0
                     /\ selectValidator(vs, r) = FirstExceeding(vs, r)
                /\ \A i \in DOMAIN vs :
                     Cardinality({r \in 0 .. (T - 1) : selectValidator(vs, r) = i})
                        = IF vs[i].Stake > 0 THEN vs[i].Stake ELSE 0

\* Two validators with stakes 50 and 100 are registered.
C15_Witness ==
    /\ loc.pc = "idle"
    /\ Len(validatorSet) = 2
    /\ validatorSet[1].Stake = 50
    /\ validatorSet[2].Stake = 100

(***************************************************************************)
(* Difficulty retargeting.  Targets are TargetWidth bits wide in place of  *)
(* 256, the interval is DIFFICULTY_ADJUSTMENT_BLOCKS = 2 blocks in place   *)
(* of 2016 and the initial bits are 3 in place of 24.  POWConsensus reads  *)
(* the database it was constructed with; here its caller stores every      *)
(* block ProposeBlock returns and proposes on top of it.                   *)
(***************************************************************************)
TargetWidth == 8
DIFFICULTY_ADJUSTMENT_BLOCKS == 2
INITIAL_TARGET_BITS == 3
MaxPoWBlocks == 4

TARGET_BLOCK_TIME_SECONDS == 600
MAX_ADJUSTMENT_FACTOR == 4

\* big.Int.BitLen: the length of the absolute value in bits.
RECURSIVE BitLen(_)
BitLen(n) ==
    IF n = 0 THEN 0
    ELSE IF n < 0 THEN BitLen(-n)
    ELSE 1 + BitLen(n \div 2)

\* The retarget branch of getAdjustedTargetBits, from the bits of prevBlock
\* and the time between the first block of the period and the tip.
RetargetBits(prevBits, actualTimeTaken) ==
    LET expectedTimeTaken == DIFFICULTY_ADJUSTMENT_BLOCKS * TARGET_BLOCK_TIME_SECONDS
        currentTarget == 2 ^ (TargetWidth - prevBits)
        scaled == (currentTarget * actualTimeTaken) \div expectedTimeTaken
        maxTarget == currentTarget * MAX_ADJUSTMENT_FACTOR
        minTarget == currentTarget \div MAX_ADJUSTMENT_FACTOR
        newTarget == IF scaled > maxTarget THEN maxTarget
                     ELSE IF scaled < minTarget THEN minTarget
                     ELSE scaled
        newTargetBits == TargetWidth - BitLen(newTarget)
    IN  IF newTargetBits < 1 THEN 1 ELSE newTargetBits

\* The loop that goes back from the tip to the first block of the period:
\* the hash it ends on, or "missing" when a block is not in the store.
RECURSIVE PeriodStart(_, _, _)
PeriodStart(hash, i, store) ==
    IF i = 0 THEN hash
    ELSE IF hash \notin DOMAIN store THEN "missing"
    ELSE LET prev == store[hash].PrevBlockHash
         IN  IF Len(prev) = 0 THEN prev ELSE PeriodStart(prev, i - 1, store)

\* POWConsensus.getAdjustedTargetBits(currentTipHash) on the store: err, or
\* the bits, with the height it counted, whether it retargeted, and the
\* bits of prevBlock and the time taken it retargeted from.
getAdjustedTargetBits(currentTipHash, store) ==
    LET failed == [err |-> TRUE, bits |-> 0, height |-> 0, retarget |-> FALSE,
                   prevBits |-> 0, actualTimeTaken |-> 0]
    IN  IF currentTipHash \notin DOMAIN store THEN failed
        ELSE
        LET currentBlock == store[currentTipHash]
        IN  IF Len(currentBlock.PrevBlockHash) = 0
            THEN [failed EXCEPT !.err = FALSE, !.bits = INITIAL_TARGET_BITS,
                                !.height = 1]
            ELSE IF currentBlock.PrevBlockHash \notin DOMAIN store THEN failed
            ELSE
            LET prevBlock == store[currentBlock.PrevBlockHash]
                currentHeight == Len(ChainFrom(currentTipHash, store))
            IN  IF currentHeight > 0 /\ currentHeight % DIFFICULTY_ADJUSTMENT_BLOCKS = 0
                THEN LET first == PeriodStart(currentTipHash,
                                     DIFFICULTY_ADJUSTMENT_BLOCKS - 1, store)
                     IN  IF first \notin DOMAIN store THEN failed
                         ELSE LET actualTimeTaken ==
                                     currentBlock.Timestamp - store[first].Timestamp
                              IN  [err |-> FALSE,
                                   bits |-> RetargetBits(prevBlock.Bits, actualTimeTaken),
                                   height |-> currentHeight, retarget |-> TRUE,
                                   prevBits |-> prevBlock.Bits,
                                   actualTimeTaken |-> actualTimeTaken]
                ELSE [failed EXCEPT !.err = FALSE, !.bits = prevBlock.Bits,
                                    !.height = currentHeight,
                                    !.prevBits = prevBlock.Bits]

\* The block ProofOfWork.Run leaves: SetNonce, UpdateHash, SetBits.
MinedBlock(b, nonce, targetBits) ==
    [UpdateHash([b EXCEPT !.Nonce = nonce]) EXCEPT !.Bits = targetBits]

\* The times time.Now() gives to NewBlock; the clock may stand still or be
\* set back between two blocks.
Clock == {0, 600, 1200, 6000}

\* The bits a block can carry.
BitsRange == 1 .. (TargetWidth - 1)

\* Before a proposal: no call of getAdjustedTargetBits has returned.
NoProposal ==
    [pc |-> "idle", err |-> FALSE, bits |-> 0, height |-> 0, retarget |-> FALSE,
     prevBits |-> 0, actualTimeTaken |-> 0, tipBits |-> 0]

\* The database handed to NewPOWConsensus: the blocks bucket empty, or
\* holding a genesis block mined at some bits and time.
InitRetarget ==
    /\ dbExists = TRUE
    /\ lastHash = NilBytes
    /\ utxoBucket = FALSE
    /\ chainstate = EmptyMap
    /\ validatorSet = <<>>
    /\ validatorsDB = EmptyMap
    /\ last = Outcome("none", "none", "none", <<>>)
    /\ mu = Unlocked
    /\ pc = EmptyMap
    /\ loc = EmptyMap
    /\ pow = NoProposal
    /\ \/ blocks = EmptyMap /\ tip = NilBytes
       \/ \E bits \in BitsRange, now \in Clock :
             LET genesis == MinedBlock(NewBlock(PoWTransactions, NilBytes, now), 0, bits)
             IN  /\ blocks = (genesis.Hash :> genesis)
                 /\ tip = genesis.Hash

RetargetFixedVars == <<dbExists, lastHash, utxoBucket, chainstate, validatorSet,
                       validatorsDB, last, mu, pc, loc>>

\* POWConsensus.ProposeBlock(proposerWallet, transactions, tip, tip) at time
\* now, Run ending on nonce; the caller puts the returned block into the
\* blocks bucket and takes it as the tip.
PoWExtend(now, nonce) ==
    /\ Len(ChainFrom(tip, blocks)) < MaxPoWBlocks
    /\ LET adj == getAdjustedTargetBits(tip, blocks)
           b == MinedBlock(NewBlock(PoWTransactions, tip, now), nonce, adj.bits)
           called == [pc |-> "proposed", err |-> adj.err, bits |-> adj.bits,
                      height |-> adj.height, retarget |-> adj.retarget,
                      prevBits |-> adj.prevBits,
                      actualTimeTaken |-> adj.actualTimeTaken,
                      tipBits |-> IF tip \in DOMAIN blocks THEN blocks[tip].Bits ELSE 0]
       IN  IF adj.err
           THEN /\ pow' = called
                /\ UNCHANGED <<blocks, tip>>
           ELSE /\ pow' = called
                /\ blocks' = [h \in DOMAIN blocks \cup {b.Hash} |->
                                IF h = b.Hash THEN b ELSE blocks[h]]
                /\ tip' = b.Hash
    /\ UNCHANGED RetargetFixedVars

NextRetarget == \E now \in Clock, nonce \in 0 .. MaxNonce : PoWExtend(now, nonce)

SpecRetarget == InitRetarget /\ [][NextRetarget]_vars

\* C16: whenever getAdjustedTargetBits has retargeted from previous bits in
\* 1 .. TargetWidth - 1, whatever the two timestamps, the bits it returned
\* are in 1 .. TargetWidth - 1 and the target they imply is between a
\* quarter of and four times the target of the previous bits.
C16_RetargetWithinFactor ==
    (pow.pc = "proposed" /\ ~pow.err /\ pow.retarget /\ pow.prevBits \in BitsRange) =>
       /\ pow.bits \in BitsRange
       /\ 2 ^ (TargetWidth - pow.bits)
             >= 2 ^ (TargetWidth - pow.prevBits) \div MAX_ADJUSTMENT_FACTOR
       /\ 2 ^ (TargetWidth - pow.bits)
             <= 2 ^ (TargetWidth - pow.prevBits) * MAX_ADJUSTMENT_FACTOR

\* A retarget over a period that took exactly the expected time.
C16_Witness ==
    /\ pow.pc = "proposed"
    /\ pow.retarget
    /\ pow.prevBits \in BitsRange
    /\ pow.actualTimeTaken = DIFFICULTY_ADJUSTMENT_BLOCKS * TARGET_BLOCK_TIME_SECONDS

\* C17: on a chain whose genesis block carries INITIAL_TARGET_BITS, when the
\* chain length at the proposal is not a positive multiple of
\* DIFFICULTY_ADJUSTMENT_BLOCKS, the block ProposeBlock returns has the bits
\* of the tip it extends.
C17_InheritsTipBits ==
    LET chain == ChainFrom(tip, blocks)
    IN  (/\ pow.pc = "proposed" /\ ~pow.err
         /\ chain[Len(chain)].Bits = INITIAL_TARGET_BITS
         /\ pow.height % DIFFICULTY_ADJUSTMENT_BLOCKS # 0)
           => /\ ~pow.retarget
              /\ blocks[tip].Bits = pow.tipBits

\* A block proposed on the block that a retarget gave new bits.
C17_Witness ==
    LET chain == ChainFrom(tip, blocks)
    IN  /\ pow.pc = "proposed" /\ ~pow.err
        /\ chain[Len(chain)].Bits = INITIAL_TARGET_BITS
        /\ pow.height = DIFFICULTY_ADJUSTMENT_BLOCKS + 1
        /\ pow.tipBits # INITIAL_TARGET_BITS

(***************************************************************************)
(* The commands send and getbalance, and create and open, over the ledger. *)
(***************************************************************************)
\* The values of the outputs of one index entry locked with pubKeyHash.
RECURSIVE SumLocked(_, _)
SumLocked(outs, pubKeyHash) ==
    IF Len(outs) = 0 THEN 0
    ELSE (IF Head(outs).PubKeyHash = pubKeyHash THEN Head(outs).Value ELSE 0)
            + SumLocked(Tail(outs), pubKeyHash)

RECURSIVE SumEntries(_, _, _)
SumEntries(ids, cs, pubKeyHash) ==
    IF ids = {} THEN 0
    ELSE LET k == CHOOSE id \in ids : TRUE
         IN  SumLocked(cs[k], pubKeyHash) + SumEntries(ids \ {k}, cs, pubKeyHash)

\* CLI.getBalance: the sum of the values UTXOSet.FindUTXO(pubKeyHash) finds
\* in the chainstate bucket.
getBalance(cs, w) == SumEntries(DOMAIN cs, cs, HashPubKey(w.PublicKey))

\* The chain holds the genesis block alone, its coinbase pays WalletA, and
\* WalletA is the only validator.
FreshChainOfA ==
    /\ tip = lastHash
    /\ Cardinality(DOMAIN blocks) = 1
    /\ Len(StoredChain) = 1
    /\ StoredChain[1].Transactions[1].Vout[1].PubKeyHash = HashPubKey(WalletA.PublicKey)
    /\ IndexExact(chainstate, StoredChain)
    /\ Len(validatorSet) = 1
    /\ validatorSet[1].PublicKey = WalletA.PublicKey

C19_InsufficientFundsChangesNothing ==
    [][(last'.op = "send" /\ utxoBucket) =>
          \A f \in Wallets, a \in SendAmounts :
             (getBalance(chainstate, f) < a /\ \E t \in Wallets : Send(f, t, a))
                => /\ last'.res = "insufficient_funds"
                   /\ UNCHANGED <<tip, lastHash, blocks, chainstate>>]_vars

\* A send has failed for insufficient funds.
C19_Witness ==
    /\ last.op = "send"
    /\ last.res = "insufficient_funds"
    /\ utxoBucket

(***************************************************************************)
(* create and open on their own.  dbExists is DbExists(): the database     *)
(* file is there, which bbolt.Open brings about before the genesis block   *)
(* is written; the chain is there when the blocks bucket is.               *)
(***************************************************************************)
\* The faults of one create call: none, the write of the initial stake
\* fails, the transaction that writes the genesis block fails, Reindex fails.
CreateFailPoints == {"none", "stake", "update", "reindex"}

\* NewBlockchain without the test for the blocks bucket.
OpenResultAnyFile(exists, store, stored) ==
    IF ~exists THEN [ok |-> FALSE, tip |-> NilBytes]
    ELSE [ok |-> TRUE, tip |-> stored]

\* NewBlockchain's reading of the database: it finds a chain when the file
\* exists and holds the blocks bucket, and takes the stored "l" as tip.
OpenResult(exists, store, stored) ==
    IF ~exists THEN [ok |-> FALSE, tip |-> NilBytes]
    ELSE IF DOMAIN store = {} THEN [ok |-> FALSE, tip |-> NilBytes]
    ELSE [ok |-> TRUE, tip |-> stored]

InitCreateOpen == Init

CreateOpenFixedVars == <<mu, pc, loc, pow>>

\* CreateBlockchain(minerWallet) at time now.
CreateCall(minerWallet, sigLen, now, fail) ==
    /\ IF dbExists
       THEN /\ last' = Outcome("create", "exists_error", "none", <<>>)
            /\ UNCHANGED <<dbExists, blocks, lastHash, tip, utxoBucket, chainstate,
                           validatorSet, validatorsDB>>
       ELSE LET vs == AddStakeSet(<<>>, GenesisStake, minerWallet)
                prop == GenesisBlock(minerWallet, now, sigLen)
                genesisBlock == prop.block
                store == Put(EmptyMap, genesisBlock.Hash, genesisBlock)
                idx == Reindex(genesisBlock.Hash, store)
            IN  /\ dbExists' = TRUE
                /\ validatorsDB' = IF fail = "stake" THEN validatorsDB
                                   ELSE Put(EmptyMap, HashPubKey(minerWallet.PublicKey), vs[1])
                /\ IF fail = "stake" \/ ~prop.ok \/ fail = "update"
                   THEN /\ last' = Outcome("create", "error", "none", <<>>)
                        /\ UNCHANGED <<blocks, lastHash, tip, utxoBucket, chainstate,
                                       validatorSet>>
                   ELSE /\ blocks' = store
                        /\ lastHash' = genesisBlock.Hash
                        /\ IF fail = "reindex"
                           THEN /\ last' = Outcome("create", "error", "none", <<>>)
                                /\ UNCHANGED <<tip, utxoBucket, chainstate, validatorSet>>
                           ELSE /\ tip' = genesisBlock.Hash
                                /\ validatorSet' = vs
                                /\ utxoBucket' = TRUE
                                /\ chainstate' = idx.cs
                                /\ last' = Outcome("create", "ok", "none", <<>>)
    /\ UNCHANGED CreateOpenFixedVars

\* NewBlockchain().
OpenCall ==
    /\ LET opened == OpenResult(dbExists, blocks, lastHash)
       IN  IF opened.ok
           THEN /\ tip' = opened.tip
                /\ validatorSet' = LoadValidators(validatorsDB)
                /\ last' = Outcome("open", "ok", "none", <<>>)
           ELSE /\ last' = Outcome("open", "not_found", "none", <<>>)
                /\ UNCHANGED <<tip, validatorSet>>
    /\ UNCHANGED <<dbExists, blocks, lastHash, utxoBucket, chainstate, validatorsDB>>
    /\ UNCHANGED CreateOpenFixedVars

NextCreateOpen ==
    \/ \E w \in Wallets, sigLen \in SigLens, now \in Clock, fail \in CreateFailPoints :
          CreateCall(w, sigLen, now, fail)
    \/ OpenCall

SpecCreateOpen == InitCreateOpen /\ [][NextCreateOpen]_vars

\* A chain exists: the blocks bucket with the genesis block and "l".
ChainExists == DOMAIN blocks # {}

\* C20: in any sequence of create and open calls, create succeeds only when
\* no chain exists, and when one exists fails with the already-exists error
\* and changes nothing; open fails exactly when no chain exists, and else
\* gives an engine whose tip is the stored tip pointer.
C20_CreateAndOpenGuards ==
    [][/\ (last'.op = "create" /\ last'.res = "ok") => ~ChainExists
       /\ (last'.op = "create" /\ ChainExists)
             => /\ last'.res = "exists_error"
                /\ UNCHANGED <<dbExists, blocks, lastHash, tip, utxoBucket,
                               chainstate, validatorSet, validatorsDB>>
       /\ last'.op = "open"
             => /\ (last'.res # "ok") <=> ~ChainExists
                /\ last'.res = "ok" => (tip' = lastHash /\ lastHash' = lastHash)]_vars

\* An open has returned an engine for a chain that a create wrote.
C20_Witness ==
    /\ ChainExists
    /\ last.op = "open"
    /\ last.res = "ok"
    /\ tip = lastHash

\* C21: right after a successful create for a miner wallet, the store holds
\* one block, the genesis block with no previous hash and one coinbase
\* transaction that pays Subsidy to the miner's key hash; both tips are its
\* hash; the UTXO index holds exactly that output, so the miner's balance
\* is Subsidy; and the miner is the one validator, with stake GenesisStake.
C21_StateAfterCreate ==
    (last.op = "create" /\ last.res = "ok") =>
       \E A \in Wallets :
          /\ Cardinality(DOMAIN blocks) = 1
          /\ tip \in DOMAIN blocks
          /\ lastHash = tip
          /\ LET genesis == blocks[tip]
                 paid == <<[Value |-> Subsidy, PubKeyHash |-> HashPubKey(A.PublicKey)]>>
             IN  /\ genesis.Hash = tip
                 /\ Len(genesis.PrevBlockHash) = 0
                 /\ Len(genesis.Transactions) = 1
                 /\ IsCoinbase(genesis.Transactions[1])
                 /\ genesis.Transactions[1].Vout = paid
                 /\ utxoBucket
                 /\ DOMAIN chainstate = {genesis.Transactions[1].ID}
                 /\ chainstate[genesis.Transactions[1].ID] = paid
          /\ getBalance(chainstate, A) = Subsidy
          /\ validatorSet = <<[PublicKey |-> A.PublicKey, Stake |-> GenesisStake]>>
          /\ LoadValidators(validatorsDB) = validatorSet

\* A create for WalletM has succeeded.
C21_Witness ==
    /\ last.op = "create"
    /\ last.res = "ok"
    /\ Len(validatorSet) = 1
    /\ validatorSet[1].PublicKey = WalletM.PublicKey

\* a can be got from b by removing elements.
RECURSIVE IsSubsequence(_, _)
IsSubsequence(a, b) ==
    IF Len(a) = 0 THEN TRUE
    ELSE IF Len(b) = 0 THEN FALSE
    ELSE IF Head(a) = Head(b) THEN IsSubsequence(Tail(a), Tail(b))
    ELSE IsSubsequence(a, Tail(b))

\* Every output of the stored chain's transactions with this id is referred
\* to by a committed input: the entry of id has been consumed.
Consumed(id, chain) ==
    LET txs == TxsInOrder(chain)
        outs == SelectSeq(OutputsSeq(txs), LAMBDA e : e[1] = id)
    IN  /\ Len(outs) > 0
        /\ \A i \in DOMAIN outs : <<outs[i][1], outs[i][2]>> \in SpentRefs(txs)

\* C22: in every step of the ledger (append with its Update, send, Reindex)
\* an entry of the UTXO index that stays in the index only loses outputs,
\* and no entry appears for a transaction whose outputs committed inputs
\* have all consumed.
C22_EntriesOnlyShrink ==
    [][/\ \A id \in DOMAIN chainstate \cap DOMAIN chainstate' :
             IsSubsequence(chainstate'[id], chainstate[id])
       /\ \A id \in DOMAIN chainstate' \ DOMAIN chainstate :
             ~Consumed(id, StoredChain)]_vars

\* Reindex has run over an index that held entries.
C22_Witness ==
    /\ last.op = "reindex"
    /\ last.res = "ok"
    /\ Cardinality(DOMAIN blocks) > 1
    /\ DOMAIN chainstate # {}

(***************************************************************************)
(* AddStake on its own: a PoSConsensus over an empty database and callers  *)
(* that add stake, with the amounts of the calls that returned nil summed  *)
(* per public key.                                                         *)
(***************************************************************************)
MaxAddStakeCalls == 4

AddStakeAmounts == {-5, 0, 50, 100, 2 ^ (StakeBits - 2)}

\* What the callers have seen: the number of calls, the last call and its
\* result, and per public key the sum of the amounts AddStake accepted.
NoStakeCalls ==
    [calls |-> 0, amount |-> 0, res |-> "none",
     sums |-> [k \in PubKeys |-> 0]]

InitStake ==
    /\ dbExists = FALSE
    /\ blocks = EmptyMap
    /\ lastHash = NilBytes
    /\ tip = NilBytes
    /\ utxoBucket = FALSE
    /\ chainstate = EmptyMap
    /\ validatorSet = <<>>
    /\ validatorsDB = EmptyMap
    /\ last = Outcome("none", "none", "none", <<>>)
    /\ mu = Unlocked
    /\ pc = EmptyMap
    /\ loc = NoStakeCalls
    /\ pow = EmptyMap

\* PoSConsensus.AddStake(stakeAmount, w); saveFails when the database
\* transaction of SaveValidator returns an error.
StakeCall(stakeAmount, w, saveFails) ==
    /\ loc.calls < MaxAddStakeCalls
    /\ IF stakeAmount <= 0
       THEN /\ loc' = [loc EXCEPT !.calls = @ + 1, !.amount = stakeAmount,
                                  !.res = "error"]
            /\ UNCHANGED <<validatorSet, validatorsDB>>
       ELSE LET vs == AddStakeSet(validatorSet, stakeAmount, w)
                v == CHOOSE x \in Range(vs) : x.PublicKey = w.PublicKey
            IN  /\ validatorSet' = vs
                /\ IF saveFails
                   THEN /\ validatorsDB' = validatorsDB
                        /\ loc' = [loc EXCEPT !.calls = @ + 1, !.amount = stakeAmount,
                                              !.res = "save_error"]
                   ELSE /\ validatorsDB' = Put(validatorsDB, HashPubKey(w.PublicKey), v)
                        /\ loc' = [loc EXCEPT !.calls = @ + 1, !.amount = stakeAmount,
                                              !.res = "ok",
                                              !.sums[w.PublicKey] = @ + stakeAmount]
    /\ UNCHANGED <<dbExists, blocks, lastHash, tip, utxoBucket, chainstate, last,
                   mu, pc, pow>>

NextStake ==
    \E a \in AddStakeAmounts, w \in Wallets, saveFails \in BOOLEAN :
       StakeCall(a, w, saveFails)

SpecStake == InitStake /\ [][NextStake]_vars

\* C23: after any sequence of AddStake calls the validator set holds at
\* most one record per public key, a key has a record when a call for it
\* succeeded, and the stake of each record is the sum of the amounts of the
\* successful calls for its key; a call with an amount that is not positive
\* returns an error and changes neither the set nor the store.
C23_StakeIsSumOfSuccessfulCalls ==
    /\ [](/\ \A i, j \in DOMAIN validatorSet :
               i # j => validatorSet[i].PublicKey # validatorSet[j].PublicKey
          /\ \A i \in DOMAIN validatorSet :
               validatorSet[i].Stake = loc.sums[validatorSet[i].PublicKey]
          /\ \A k \in PubKeys :
               loc.sums[k] > 0 => \E i \in DOMAIN validatorSet :
                                     validatorSet[i].PublicKey = k)
    /\ [][loc'.amount <= 0
             => /\ loc'.res = "error"
                /\ UNCHANGED <<validatorSet, validatorsDB>>]_vars

\* Two calls for one key have succeeded, and a call for another.
C23_Witness ==
    /\ Len(validatorSet) = 2
    /\ validatorSet[1].Stake = 150
    /\ loc.sums[validatorSet[1].PublicKey] = 150
    /\ loc.res = "ok"

(***************************************************************************)
(* The Merkle tree of internal/crypto/merkletree.  A byte string is a      *)
(* sequence of integers; a SHA-256 digest is the hashed string between the *)
(* two marks -1 and -2, so that digests are injective and the              *)
(* concatenation of two digests splits in one way only, as the             *)
(* concatenation of two strings of 32 bytes does.  A pointer to a node is  *)
(* the empty sequence (nil) or the sequence of that one node.              *)
(***************************************************************************)
MaxData == 6

\* A nil []byte, which is not a byte string of the model.
NilData == <<-3>>

Datums == {<<1>>, <<2>>}

\* sha256.Sum256(data); the digest of nil is the digest of the empty string.
Sum256(data) ==
    <<-1>> \o (IF data = NilData THEN <<>> ELSE data) \o <<-2>>

\* hashPair with the two digests taken in the other order.
hashPairSwapped(left, right) ==
    Sum256(right \o left)

\* hashPair(left, right)
hashPair(left, right) ==
    Sum256(left \o right)

\* NewMerkleNode(left, right, data)
NewMerkleNode(left, right, data) ==
    IF Len(left) = 0 /\ Len(right) = 0
    THEN IF data = NilData
         THEN [err |-> TRUE, node |-> <<>>]
         ELSE [err |-> FALSE,
               node |-> <<[Left |-> <<>>, Right |-> <<>>, Data |-> Sum256(data)]>>]
    ELSE IF Len(left) = 0 \/ Len(right) = 0
         THEN [err |-> TRUE, node |-> <<>>]
         ELSE [err |-> FALSE,
               node |-> <<[Left |-> left, Right |-> right,
                           Data |-> Sum256(left[1].Data \o right[1].Data)]>>]

\* The loop "for len(nodes) > 1" of NewMerkleTree: nodes[i+1] is read for
\* every even i below len(nodes), out of range when len(nodes) is odd.
RECURSIVE BuildLevels(_)
BuildLevels(nodes) ==
    IF Len(nodes) <= 1
    THEN [res |-> "ok", RootNode |-> nodes[1]]
    ELSE IF Len(nodes) % 2 # 0
         THEN [res |-> "panic", RootNode |-> <<>>]
         ELSE BuildLevels([i \in 1..(Len(nodes) \div 2) |->
                             NewMerkleNode(nodes[2 * i - 1], nodes[2 * i], NilData).node])

\* NewMerkleTree(data)
NewMerkleTree(data) ==
    IF Len(data) = 0
    THEN [res |-> "error", RootNode |-> <<>>]
    ELSE LET dataBlocks == IF Len(data) % 2 # 0
                           THEN Append(data, data[Len(data)])
                           ELSE data
             leaves == [i \in DOMAIN dataBlocks |->
                          NewMerkleNode(<<>>, <<>>, dataBlocks[i])]
         IN  IF \E i \in DOMAIN leaves : leaves[i].err
             THEN [res |-> "error", RootNode |-> <<>>]
             ELSE BuildLevels([i \in DOMAIN leaves |-> leaves[i].node])

\* MerkleTree.collectProof(node, targetHash, proof, flags)
RECURSIVE collectProof(_, _)
collectProof(node, targetHash) ==
    IF Len(node[1].Left) = 0 /\ Len(node[1].Right) = 0
    THEN [found |-> node[1].Data = targetHash, proof |-> <<>>, flags |-> <<>>]
    ELSE LET l == IF Len(node[1].Left) # 0
                  THEN collectProof(node[1].Left, targetHash)
                  ELSE [found |-> FALSE, proof |-> <<>>, flags |-> <<>>]
         IN  IF l.found
             THEN [found |-> TRUE,
                   proof |-> Append(l.proof, node[1].Right[1].Data),
                   flags |-> Append(l.flags, TRUE)]
             ELSE LET r == IF Len(node[1].Right) # 0
                           THEN collectProof(node[1].Right, targetHash)
                           ELSE [found |-> FALSE, proof |-> <<>>, flags |-> <<>>]
                  IN  IF r.found
                      THEN [found |-> TRUE,
                            proof |-> Append(r.proof, node[1].Left[1].Data),
                            flags |-> Append(r.flags, FALSE)]
                      ELSE [found |-> FALSE, proof |-> <<>>, flags |-> <<>>]

\* MerkleTree.GenerateProof(data)
GenerateProof(RootNode, data) ==
    IF Len(RootNode) = 0
    THEN [res |-> "error", proof |-> <<>>, flags |-> <<>>]
    ELSE LET c == collectProof(RootNode, Sum256(data))
         IN  IF c.found
             THEN [res |-> "ok", proof |-> c.proof, flags |-> c.flags]
             ELSE [res |-> "error", proof |-> <<>>, flags |-> <<>>]

\* The loop of VerifyProof over the first n elements of the proof.
RECURSIVE FoldProof(_, _, _, _)
FoldProof(dataHash, proof, proofFlags, n) ==
    IF n = 0
    THEN dataHash
    ELSE LET calculatedHash == FoldProof(dataHash, proof, proofFlags, n - 1)
         IN  IF proofFlags[n]
             THEN hashPair(calculatedHash, proof[n])
             ELSE hashPair(proof[n], calculatedHash)

\* MerkleTree.VerifyProof(dataHash, proof, proofFlags); proofFlags[i] is
\* read for every index of the proof.
VerifyProof(RootNode, dataHash, proof, proofFlags) ==
    IF Len(RootNode) = 0
    THEN "error"
    ELSE IF Len(proofFlags) < Len(proof)
         THEN "panic"
         ELSE IF FoldProof(dataHash, proof, proofFlags, Len(proof)) = RootNode[1].Data
              THEN "true"
              ELSE "false"

\* The data blocks NewMerkleTree is called with.
DataLists == UNION {[1..n -> Datums \cup {NilData}] : n \in 0..MaxData}

\* The data GenerateProof and VerifyProof are called with: the blocks, a
\* block of no tree, and the strings of 64 bytes that are two digests.
ProbeData ==
    Datums \cup {<<3>>} \cup {Sum256(a) \o Sum256(b) : a, b \in Datums}

NoTree ==
    [op |-> "none", data |-> <<>>,
     tree |-> [res |-> "none", RootNode |-> <<>>],
     target |-> NilData,
     gen |-> [res |-> "none", proof |-> <<>>, flags |-> <<>>],
     claimed |-> NilData, proof |-> <<>>, altered |-> FALSE, verdict |-> "none"]

InitMerkle ==
    /\ dbExists = FALSE
    /\ blocks = EmptyMap
    /\ lastHash = NilBytes
    /\ tip = NilBytes
    /\ utxoBucket = FALSE
    /\ chainstate = EmptyMap
    /\ validatorSet = <<>>
    /\ validatorsDB = EmptyMap
    /\ last = Outcome("none", "none", "none", <<>>)
    /\ mu = Unlocked
    /\ pc = EmptyMap
    /\ loc = NoTree
    /\ pow = EmptyMap

MerkleFixedVars ==
    <<dbExists, blocks, lastHash, tip, utxoBucket, chainstate, validatorSet,
      validatorsDB, last, mu, pc, pow>>

\* tree, err := NewMerkleTree(data); a behaviour builds one tree.
MerkleBuild(data) ==
    /\ loc.op = "none"
    /\ loc' = [NoTree EXCEPT !.op = "build", !.data = data,
                             !.tree = NewMerkleTree(data)]
    /\ UNCHANGED MerkleFixedVars

\* proof, proofFlags, err := tree.GenerateProof(targetData)
MerkleGenerate(targetData) ==
    /\ loc.tree.res = "ok"
    /\ loc' = [loc EXCEPT !.op = "generate", !.target = targetData,
                          !.gen = GenerateProof(loc.tree.RootNode, targetData),
                          !.claimed = NilData, !.proof = <<>>,
                          !.altered = FALSE, !.verdict = "none"]
    /\ UNCHANGED MerkleFixedVars

\* tree.VerifyProof(sha256.Sum256(claimed), proof, proofFlags) with the
\* generated proof, or with its i-th element replaced by another digest.
MerkleVerify(claimed, i, digest) ==
    /\ loc.gen.res = "ok"
    /\ i \in 0..Len(loc.gen.proof)
    /\ i # 0 => digest # loc.gen.proof[i]
    /\ LET proof == IF i = 0 THEN loc.gen.proof
                    ELSE [loc.gen.proof EXCEPT ![i] = digest]
       IN  loc' = [loc EXCEPT !.op = "verify", !.claimed = claimed,
                              !.proof = proof, !.altered = (i # 0),
                              !.verdict = VerifyProof(loc.tree.RootNode,
                                             Sum256(claimed), proof, loc.gen.flags)]
    /\ UNCHANGED MerkleFixedVars

NextMerkle ==
    \/ \E data \in DataLists : MerkleBuild(data)
    \/ \E targetData \in ProbeData : MerkleGenerate(targetData)
    \/ \E claimed \in ProbeData, i \in 0..MaxData, d \in ProbeData :
          MerkleVerify(claimed, i, Sum256(d))

SpecMerkle == InitMerkle /\ [][NextMerkle]_vars

\* The root digest of a list of digests when the last element of every
\* level with an odd count is taken twice.
RECURSIVE RootOfLevel(_)
RootOfLevel(hashes) ==
    LET level == IF Len(hashes) % 2 # 0
                 THEN Append(hashes, hashes[Len(hashes)])
                 ELSE hashes
        up == [i \in 1..(Len(level) \div 2) |->
                 Sum256(level[2 * i - 1] \o level[2 * i])]
    IN  IF Len(up) = 1 THEN up[1] ELSE RootOfLevel(up)

\* C24: NewMerkleTree returns an error exactly for the empty list of data
\* blocks; for every other list, of any length, it returns a tree whose
\* leaves are the digests of the blocks and whose root is the digest the
\* levels give when the last element of each level of odd count is doubled.
C24_TreeForEveryNonEmptyList ==
    loc.op = "build" =>
       /\ loc.tree.res = "error" <=> Len(loc.data) = 0
       /\ Len(loc.data) > 0 =>
             /\ loc.tree.res = "ok"
             /\ loc.tree.RootNode[1].Data
                   = RootOfLevel([i \in DOMAIN loc.data |-> Sum256(loc.data[i])])

\* NewMerkleTree has been called with five data blocks.
C24_Witness ==
    /\ loc.op = "build"
    /\ Len(loc.data) = 5
    /\ \A i \in DOMAIN loc.data : loc.data[i] # NilData
    /\ loc.tree.res = "panic"

\* C25: for a tree built from data blocks and a block x of them, the proof
\* GenerateProof gives for x verifies with the digest of x, does not verify
\* with the digest of any other datum, and does not verify once one of its
\* elements is replaced; GenerateProof returns an error for a datum that is
\* not among the blocks.
C25_ProofVerifiesOnlyItsDatum ==
    /\ loc.op = "generate" =>
          (loc.gen.res = "ok" <=> \E i \in DOMAIN loc.data : loc.data[i] = loc.target)
    /\ loc.op = "verify" =>
          /\ (~loc.altered /\ loc.claimed = loc.target) => loc.verdict = "true"
          /\ (~loc.altered /\ loc.claimed # loc.target) => loc.verdict = "false"
          /\ (loc.altered /\ loc.claimed = loc.target) => loc.verdict = "false"

\* A proof of two elements has verified for its datum in a tree of three
\* blocks, the datum being the doubled last block.
C25_Witness ==
    /\ loc.op = "verify"
    /\ Len(loc.data) = 3
    /\ loc.target = loc.data[3]
    /\ loc.data[1] # loc.target /\ loc.data[2] # loc.target
    /\ ~loc.altered
    /\ loc.claimed = loc.target
    /\ Len(loc.proof) = 2
    /\ loc.verdict = "true"

(***************************************************************************)
(* Block.ValidateBlock with its goroutines.  Process 0 is the caller; the  *)
(* checker of the transaction at index i (from 1) is process i.  loc holds *)
(* the block, the channel errs (the indexes of the errors sent), its       *)
(* capacity, the counter of the WaitGroup and what the call returned.      *)
(***************************************************************************)
MaxBlockTxs == 3

\* The transaction the candidates refer to, and the map handed to
\* ValidateBlock.
PrevTx == NewCoinbaseTx(WalletA.PublicKey, GenesisCoinbaseData)

ValidatePrevTXs == Put(EmptyMap, HexKey(PrevTx.ID), PrevTx)

\* A transaction of one input and one output, signed by w with Sign where
\* Sign returns one.
SignedSpend(w, txid, vout) ==
    LET body == [ID |-> NilBytes,
                 Vin |-> <<TxInput(txid, vout, NilBytes, w.PublicKey)>>,
                 Vout |-> <<TxOutput(10, HashPubKey(w.PublicKey))>>]
        tx == [body EXCEPT !.ID = TxHash(body)]
        signed == Sign(tx, w, 64, ValidatePrevTXs)
    IN  IF signed.res = "ok" THEN signed.tx ELSE tx

\* Transactions of a block handed to ValidateBlock: coinbases (one without
\* id, one without outputs), a spend whose signature verifies, one whose
\* signature does not, one of an unknown transaction, one of an output
\* index out of range and one without outputs.
CandidateTxs ==
    LET cb == NewCoinbaseTx(WalletM.PublicKey, FixedCoinbaseData)
        good == SignedSpend(WalletM, PrevTx.ID, 0)
    IN  {cb, [cb EXCEPT !.ID = NilBytes], [cb EXCEPT !.Vout = <<>>],
         good, SignedSpend(WalletA, PrevTx.ID, 0),
         SignedSpend(WalletM, UnknownID, 0), SignedSpend(WalletM, PrevTx.ID, 1),
         [good EXCEPT !.Vout = <<>>]}

CandidateBlocks ==
    {NewBlock(txs, prev, 1) :
        txs \in UNION {[1..n -> CandidateTxs] : n \in 0..MaxBlockTxs},
        prev \in {NilBytes, Sha256(<<0>>)}}

Caller == 0

NoCall ==
    [block |-> NewBlock(<<>>, NilBytes, 0), i |-> 0, errs |-> <<>>, cap |-> 0,
     wg |-> 0, ret |-> [kind |-> "none", index |-> 0], crashed |-> FALSE]

InitValidate ==
    /\ dbExists = FALSE
    /\ blocks = EmptyMap
    /\ lastHash = NilBytes
    /\ tip = NilBytes
    /\ utxoBucket = FALSE
    /\ chainstate = EmptyMap
    /\ validatorSet = <<>>
    /\ validatorsDB = EmptyMap
    /\ last = Outcome("none", "none", "none", <<>>)
    /\ mu = Unlocked
    /\ pc = [p \in 0..MaxBlockTxs |-> IF p = Caller THEN "idle" ELSE "none"]
    /\ loc = NoCall
    /\ pow = EmptyMap

ValidateFixedVars ==
    <<dbExists, blocks, lastHash, tip, utxoBucket, chainstate, validatorSet,
      validatorsDB, last, mu, pow>>

Returned(kind, index) == [kind |-> kind, index |-> index]

\* ValidateBlock up to the creation of errs: the checks that return at once.
VBCall(b) ==
    /\ pc[Caller] = "idle"
    /\ LET early ==
             IF Len(b.PrevBlockHash) = 0
             THEN IF Len(b.Transactions) # 1 \/ ~IsCoinbase(b.Transactions[1])
                  THEN "genesis_error" ELSE "nil"
             ELSE IF Len(b.Transactions) = 0 THEN "empty_error"
             ELSE IF ~IsCoinbase(b.Transactions[1]) THEN "coinbase_error"
             ELSE "none"
       IN  /\ loc' = [NoCall EXCEPT !.block = b, !.i = 1,
                                    !.cap = Len(b.Transactions),
                                    !.ret = Returned(early, 0)]
           /\ pc' = [pc EXCEPT ![Caller] = IF early = "none" THEN "loop"
                                           ELSE "returned"]
    /\ UNCHANGED ValidateFixedVars

\* One turn of "for i, tx := range b.Transactions": a coinbase is passed
\* over, any other transaction gets wg.Add(1) and its goroutine.
VBSpawn ==
    /\ pc[Caller] = "loop"
    /\ ~loc.crashed
    /\ IF loc.i > Len(loc.block.Transactions)
       THEN /\ pc' = [pc EXCEPT ![Caller] = "wait"]
            /\ loc' = loc
       ELSE IF IsCoinbase(loc.block.Transactions[loc.i])
            THEN /\ pc' = pc
                 /\ loc' = [loc EXCEPT !.i = @ + 1]
            ELSE /\ pc' = [pc EXCEPT ![loc.i] = "start"]
                 /\ loc' = [loc EXCEPT !.i = @ + 1, !.wg = @ + 1]
    /\ UNCHANGED ValidateFixedVars

\* The goroutine's call of tx.ValidateTransaction(prevTXs).
CheckerRun(p) ==
    /\ pc[p] = "start"
    /\ ~loc.crashed
    /\ LET r == ValidateTransaction(loc.block.Transactions[p], ValidatePrevTXs)
       IN  pc' = [pc EXCEPT ![p] = CASE r = "ok" -> "exit"
                                     [] r = "error" -> "send"
                                     [] OTHER -> "panicking"]
    /\ UNCHANGED loc
    /\ UNCHANGED ValidateFixedVars

\* errs <- fmt.Errorf("invalid transaction at index %d: ...", i), which
\* waits while the buffer of errs is full.
CheckerSend(p) ==
    /\ pc[p] = "send"
    /\ ~loc.crashed
    /\ Len(loc.errs) < loc.cap
    /\ loc' = [loc EXCEPT !.errs = Append(@, p)]
    /\ pc' = [pc EXCEPT ![p] = "exit"]
    /\ UNCHANGED ValidateFixedVars

\* defer wg.Done(), as the goroutine returns or as its panic unwinds.
CheckerDone(p) ==
    /\ pc[p] \in {"exit", "panicking"}
    /\ ~loc.crashed
    /\ loc' = [loc EXCEPT !.wg = @ - 1]
    /\ pc' = [pc EXCEPT ![p] = IF pc[p] = "exit" THEN "done" ELSE "fatal"]
    /\ UNCHANGED ValidateFixedVars

\* The panic no one recovers leaves the goroutine: the program ends.
CheckerCrash(p) ==
    /\ pc[p] = "fatal"
    /\ ~loc.crashed
    /\ loc' = [loc EXCEPT !.crashed = TRUE]
    /\ UNCHANGED pc
    /\ UNCHANGED ValidateFixedVars

\* wg.Wait(), close(errs) and the return of the first error received.
VBWait ==
    /\ pc[Caller] = "wait"
    /\ ~loc.crashed
    /\ loc.wg = 0
    /\ loc' = [loc EXCEPT !.ret = IF Len(loc.errs) = 0 THEN Returned("nil", 0)
                                  ELSE Returned("tx_error", Head(loc.errs))]
    /\ pc' = [pc EXCEPT ![Caller] = "returned"]
    /\ UNCHANGED ValidateFixedVars

NextValidate ==
    \/ \E b \in CandidateBlocks : VBCall(b)
    \/ VBSpawn
    \/ \E p \in 1..MaxBlockTxs :
          CheckerRun(p) \/ CheckerSend(p) \/ CheckerDone(p) \/ CheckerCrash(p)
    \/ VBWait

SpecValidate == InitValidate /\ [][NextValidate]_vars

\* Every transaction but the first passes ValidateTransaction.
OthersPass(b) ==
    \A i \in 2..Len(b.Transactions) :
       ValidateTransaction(b.Transactions[i], ValidatePrevTXs) = "ok"

\* C26: ValidateBlock accepts a genesis block exactly when it holds one
\* transaction and that one is a coinbase; it accepts any other block
\* exactly when the block holds a transaction, the first is a coinbase and
\* every other one passes ValidateTransaction against prevTXs.
C26_ValidateBlockAcceptsIff ==
    pc[Caller] = "returned" =>
       LET b == loc.block
       IN  loc.ret.kind = "nil" <=>
              IF Len(b.PrevBlockHash) = 0
              THEN Len(b.Transactions) = 1 /\ IsCoinbase(b.Transactions[1])
              ELSE /\ Len(b.Transactions) >= 1
                   /\ IsCoinbase(b.Transactions[1])
                   /\ OthersPass(b)

\* A block after the genesis block was accepted whose second transaction is
\* a coinbase without id.
C26_Witness ==
    /\ pc[Caller] = "returned"
    /\ loc.ret.kind = "nil"
    /\ Len(loc.block.PrevBlockHash) # 0
    /\ Len(loc.block.Transactions) = 2
    /\ IsCoinbase(loc.block.Transactions[2])
    /\ Len(loc.block.Transactions[2].ID) = 0

\* The checkers ValidateBlock has started.
Checkers == {p \in 1..MaxBlockTxs : pc[p] # "none"}

\* C27: in ValidateBlock no checker waits to send its error, every checker
\* started has finished when ValidateBlock returns, ValidateBlock returns an
\* error when a checker has failed, and the error returned is that of a
\* transaction whose validation failed.
C27_CheckersAreCollected ==
    /\ \A p \in Checkers : pc[p] = "send" => Len(loc.errs) < loc.cap
    /\ pc[Caller] = "returned" =>
          /\ \A p \in Checkers : pc[p] = "done"
          /\ (\E p \in Checkers :
                 ValidateTransaction(loc.block.Transactions[p], ValidatePrevTXs) # "ok")
                => loc.ret.kind = "tx_error"
          /\ loc.ret.kind = "tx_error" =>
                /\ loc.ret.index \in Checkers
                /\ ValidateTransaction(loc.block.Transactions[loc.ret.index],
                                       ValidatePrevTXs) # "ok"

\* ValidateBlock has returned nil while the checker of a transaction with an
\* output index out of range is in its panic.
C27_Witness ==
    /\ pc[Caller] = "returned"
    /\ loc.ret.kind = "nil"
    /\ \E p \in Checkers : pc[p] = "fatal"
    /\ ~loc.crashed

(***************************************************************************)
(* The bytes of a signature.  r and s are numbers below 256^CoordLen,      *)
(* CoordLen standing for the 32 bytes of a P-256 scalar, so that a         *)
(* signature of full length has 2 * CoordLen bytes where the code has 64.  *)
(***************************************************************************)
CoordLen == 2

\* big.Int.Bytes: the big-endian bytes without leading zero bytes.
RECURSIVE BigIntBytes(_)
BigIntBytes(n) ==
    IF n = 0 THEN <<>> ELSE Append(BigIntBytes(n \div 256), n % 256)

\* big.Int.SetBytes: the number of big-endian bytes.
RECURSIVE SetBytes(_)
SetBytes(bytes) ==
    IF Len(bytes) = 0 THEN 0
    ELSE 256 * SetBytes(SubSeq(bytes, 1, Len(bytes) - 1)) + bytes[Len(bytes)]

\* The signature Wallet.SignData builds of the r and s ecdsa.Sign returns.
SignatureBytes(r, s) ==
    BigIntBytes(r) \o BigIntBytes(s)

\* wallet.VerifySignature up to the call of ecdsa.Verify: the length check,
\* and the two numbers handed on.
ParseSignature(signature) ==
    IF Len(signature) # 2 * CoordLen
    THEN [ok |-> FALSE, rSign |-> 0, sSign |-> 0]
    ELSE [ok |-> TRUE,
          rSign |-> SetBytes(SubSeq(signature, 1, CoordLen)),
          sSign |-> SetBytes(SubSeq(signature, CoordLen + 1, Len(signature)))]

\* Values of r and s: small ones, those around the least number of full
\* length, and the greatest ones.
SampleScalars ==
    (1..4) \cup {256 ^ (CoordLen - 1) + d : d \in -2..2}
           \cup {256 ^ CoordLen - d : d \in 1..3}

NoSignature ==
    [op |-> "none", r |-> 0, s |-> 0, signature |-> <<>>,
     parsed |-> [ok |-> FALSE, rSign |-> 0, sSign |-> 0]]

InitSign ==
    /\ dbExists = FALSE
    /\ blocks = EmptyMap
    /\ lastHash = NilBytes
    /\ tip = NilBytes
    /\ utxoBucket = FALSE
    /\ chainstate = EmptyMap
    /\ validatorSet = <<>>
    /\ validatorsDB = EmptyMap
    /\ last = Outcome("none", "none", "none", <<>>)
    /\ mu = Unlocked
    /\ pc = EmptyMap
    /\ loc = NoSignature
    /\ pow = EmptyMap

\* signature, err := w.SignData(data), ecdsa.Sign having drawn r and s, and
\* VerifySignature of that signature.
SignThenVerify(r, s) ==
    /\ loc' = [op |-> "sign", r |-> r, s |-> s,
               signature |-> SignatureBytes(r, s),
               parsed |-> ParseSignature(SignatureBytes(r, s))]
    /\ UNCHANGED <<dbExists, blocks, lastHash, tip, utxoBucket, chainstate,
                   validatorSet, validatorsDB, last, mu, pc, pow>>

NextSign == \E r, s \in SampleScalars : SignThenVerify(r, s)

SpecSign == InitSign /\ [][NextSign]_vars

\* n in exactly CoordLen big-endian bytes, zeros in front.
RECURSIVE Padded(_, _)
Padded(n, len) ==
    IF len = 0 THEN <<>> ELSE Append(Padded(n \div 256, len - 1), n % 256)

\* C28: every signature Wallet.SignData returns has the full length, r and
\* s each in its own half with zero bytes in front, whatever r and s are;
\* so the length check of VerifySignature passes every such signature and
\* r and s are read back from it.
C28_SignatureHasFullLength ==
    loc.op = "sign" =>
       /\ Len(loc.signature) = 2 * CoordLen
       /\ loc.signature = Padded(loc.r, CoordLen) \o Padded(loc.s, CoordLen)
       /\ loc.parsed = [ok |-> TRUE, rSign |-> loc.r, sSign |-> loc.s]

\* A signature whose r has a zero byte in front was made, and refused for
\* its length.
C28_Witness ==
    /\ loc.op = "sign"
    /\ loc.r < 256 ^ (CoordLen - 1)
    /\ loc.s >= 256 ^ (CoordLen - 1)
    /\ Len(loc.signature) = 2 * CoordLen - 1
    /\ ~loc.parsed.ok

(***************************************************************************)
(* References of inputs that cannot be resolved.                           *)
(***************************************************************************)
\* The map of every stored transaction by the hex form of its id.
StoredTXsHex ==
    LET txs == Range(AllTxs(StoredChain))
    IN  [k \in {HexKey(t.ID) : t \in txs} |-> CHOOSE t \in txs : HexKey(t.ID) = k]

\* An unsigned transaction of w with one input referring to output vout of
\* transaction txid.
Referring(w, txid, vout) ==
    LET body == [ID |-> NilBytes,
                 Vin |-> <<TxInput(txid, vout, NilBytes, w.PublicKey)>>,
                 Vout |-> <<TxOutput(10, HashPubKey(w.PublicKey))>>]
    IN  [body EXCEPT !.ID = TxHash(body)]

\* The reference of the input is to a transaction prevTXs lacks, or to an
\* output index below 0 or not below the number of its outputs.
Malformed(tx, prevTXs) ==
    \/ HexKey(tx.Vin[1].Txid) \notin DOMAIN prevTXs
    \/ ~InRange(prevTXs[HexKey(tx.Vin[1].Txid)], tx.Vin[1].Vout)

\* C29: Sign and Verify do not fault on a reference that cannot be
\* resolved: for an input whose transaction is not in prevTXs or whose output
\* index is out of range, Sign returns an error and leaves the signatures as
\* they were, Verify reports the transaction invalid, and no append or send
\* ends in a fault.
C29_MalformedReferenceNeverFaults ==
    /\ last.op \in {"append", "send"} =>
          last.res \notin {"verify_panic", "validate_panic", "sign_panic"}
    /\ dbExists =>
          \A w \in Wallets, txid \in RefIDs \ {NilBytes}, vout \in {-1, 0, 1} :
             LET tx == Referring(w, txid, vout)
                 signed == Sign(tx, w, 64, StoredTXsHex)
             IN  Malformed(tx, StoredTXsHex) =>
                    /\ signed.res = "error"
                    /\ signed.tx = tx
                    /\ Verify(tx, StoredTXsHex) \in {"invalid", "error"}

\* An append was handed a transaction whose input refers to an output index
\* the stored transaction does not have, and ended in the fault of Verify.
C29_Witness ==
    /\ last.op = "append"
    /\ last.res = "verify_panic"
    /\ \E w \in Wallets, txid \in RefIDs \ {NilBytes} :
          /\ HexKey(txid) \in DOMAIN StoredTXsHex
          /\ Verify(Referring(w, txid, 1), StoredTXsHex) = "panic"

(***************************************************************************)
(* The coins of the index.                                                 *)
(***************************************************************************)
RECURSIVE SumValues(_)
SumValues(outs) ==
    IF Len(outs) = 0 THEN 0 ELSE Head(outs).Value + SumValues(Tail(outs))

\* The sum of the values of all outputs of the entries ids of the index.
RECURSIVE SumIndex(_, _)
SumIndex(ids, cs) ==
    IF ids = {} THEN 0
    ELSE LET k == CHOOSE id \in ids : TRUE
         IN  SumValues(cs[k]) + SumIndex(ids \ {k}, cs)

\* The index holds the subsidy once for every stored block.
CoinsMatchBlocks(cs, store) ==
    SumIndex(DOMAIN cs, cs) = Subsidy * Cardinality(DOMAIN store)

NamesUnspent(ref, pubKeyHash) ==
    LET found == FindTransaction(ref[1], lastHash, blocks)
    IN  /\ Len(found) > 0
        /\ InRange(Head(found), ref[2])
        /\ Head(found).Vout[ref[2] + 1].PubKeyHash = pubKeyHash
        /\ ref \notin SpentRefs(TxsInOrder(StoredChain))

\* The values of the outputs refs names, added up.
RECURSIVE SumRefs(_)
SumRefs(refs) ==
    IF Len(refs) = 0 THEN 0
    ELSE Head(FindTransaction(Head(refs)[1], lastHash, blocks)).Vout[Head(refs)[2] + 1].Value
            + SumRefs(Tail(refs))

\* C31: whatever the key hash and the amount, every <<txid, index>> that
\* FindSpendableOutputs returns names an output of the stored transaction
\* txid at its position index, locked with the key hash and unspent; the
\* accumulated value is the sum of the values of those outputs, and it
\* reaches the amount whenever the total the index holds for the key does.
\* It is stated of the states whose stored chain holds every stored block.
C31_SpendableOutputsAreReal ==
    (dbExists /\ utxoBucket /\ Len(StoredChain) = Cardinality(DOMAIN blocks)) =>
       \A w \in Wallets, amount \in SendAmounts, order \in Orders(DOMAIN chainstate) :
          LET pubkeyHash == HashPubKey(w.PublicKey)
              found == FindSpendableOutputs(chainstate, order, pubkeyHash, amount,
                                            [acc |-> 0, refs |-> <<>>])
          IN  /\ \A i \in DOMAIN found.refs : NamesUnspent(found.refs[i], pubkeyHash)
              /\ found.acc = SumRefs(found.refs)
              /\ getBalance(chainstate, w) >= amount => found.acc >= amount

\* After a Reindex an entry of the index holds two outputs, and
\* FindSpendableOutputs returns the position 1 under its key.
C31_Witness ==
    /\ last.op = "reindex"
    /\ utxoBucket
    /\ \E w \in Wallets, order \in Orders(DOMAIN chainstate) :
          LET found == FindSpendableOutputs(chainstate, order, HashPubKey(w.PublicKey),
                                            60, [acc |-> 0, refs |-> <<>>])
          IN  \E i \in DOMAIN found.refs :
                 /\ found.refs[i][2] = 1
                 /\ Len(chainstate[found.refs[i][1]]) = 2

(***************************************************************************)
(* The lock bc.mu of internal/blockchain/blockchain.go, a sync.RWMutex.    *)
(* mu is [writer, readers]: writer is the thread that has called Lock and  *)
(* not yet Unlock (0 for none), from which moment RLock waits, and         *)
(* readers[t] counts the read locks thread t holds.  pc[t] is the place of *)
(* thread t in its call and loc[t] the call with the place Iterator        *)
(* returns to.  The chain itself is left as it is.                         *)
(***************************************************************************)
LockOps == {"MineBlock", "FindUTXO", "Reindex", "Iterator"}

NoCallOfLock == [op |-> "none", coinbaseOnly |-> TRUE, ret |-> "idle"]

InitLock ==
    /\ dbExists = TRUE
    /\ blocks = EmptyMap
    /\ lastHash = NilBytes
    /\ tip = NilBytes
    /\ utxoBucket = TRUE
    /\ chainstate = EmptyMap
    /\ validatorSet = <<>>
    /\ validatorsDB = EmptyMap
    /\ last = Outcome("none", "none", "none", <<>>)
    /\ mu = [writer |-> 0, readers |-> [t \in Threads |-> 0]]
    /\ pc = [t \in Threads |-> "idle"]
    /\ loc = [t \in Threads |-> NoCallOfLock]
    /\ pow = EmptyMap

LockFixedVars ==
    <<dbExists, blocks, lastHash, tip, utxoBucket, chainstate, validatorSet,
      validatorsDB, last, pow>>

\* A thread calls MineBlock (with coinbases only, or with a transaction
\* that has an input), FindUTXO, UTXOSet.Reindex or Iterator.
BcCall(t, op, coinbaseOnly) ==
    /\ pc[t] = "idle"
    /\ pc' = [pc EXCEPT ![t] = CASE op = "MineBlock" -> "lock"
                                 [] op = "Iterator" -> "iter_rlock"
                                 [] OTHER -> "rlock"]
    /\ loc' = [loc EXCEPT ![t] = [op |-> op, coinbaseOnly |-> coinbaseOnly,
                                  ret |-> "idle"]]
    /\ UNCHANGED mu
    /\ UNCHANGED LockFixedVars

\* bc.mu.Lock() of MineBlock: the writer is announced, readers that come
\* later wait.
BcLock(t) ==
    /\ pc[t] = "lock"
    /\ mu.writer = 0
    /\ mu' = [mu EXCEPT !.writer = t]
    /\ pc' = [pc EXCEPT ![t] = "drain"]
    /\ UNCHANGED loc
    /\ UNCHANGED LockFixedVars

\* bc.mu.Lock() returns once no read lock is held.  MineBlock then calls
\* VerifyTransaction for a transaction that is no coinbase, which calls
\* FindTransaction, which calls bc.Iterator().
BcLockAcquired(t) ==
    /\ pc[t] = "drain"
    /\ \A r \in Threads : mu.readers[r] = 0
    /\ pc' = [pc EXCEPT ![t] = IF loc[t].coinbaseOnly THEN "commit" ELSE "iter_rlock"]
    /\ loc' = [loc EXCEPT ![t].ret = "commit"]
    /\ UNCHANGED mu
    /\ UNCHANGED LockFixedVars

\* bc.mu.RLock() of Iterator.
BcIteratorRLock(t) ==
    /\ pc[t] = "iter_rlock"
    /\ mu.writer = 0
    /\ mu' = [mu EXCEPT !.readers[t] = @ + 1]
    /\ pc' = [pc EXCEPT ![t] = "iter_runlock"]
    /\ UNCHANGED loc
    /\ UNCHANGED LockFixedVars

\* The deferred bc.mu.RUnlock() of Iterator, and its return.
BcIteratorRUnlock(t) ==
    /\ pc[t] = "iter_runlock"
    /\ mu' = [mu EXCEPT !.readers[t] = @ - 1]
    /\ pc' = [pc EXCEPT ![t] = loc[t].ret]
    /\ UNCHANGED loc
    /\ UNCHANGED LockFixedVars

\* bc.mu.RLock() of FindUTXO, which then calls bc.Iterator().
BcFindUTXORLock(t) ==
    /\ pc[t] = "rlock"
    /\ mu.writer = 0
    /\ mu' = [mu EXCEPT !.readers[t] = @ + 1]
    /\ pc' = [pc EXCEPT ![t] = "iter_rlock"]
    /\ loc' = [loc EXCEPT ![t].ret = "runlock"]
    /\ UNCHANGED LockFixedVars

\* The scan of FindUTXO and its deferred bc.mu.RUnlock().
BcFindUTXORUnlock(t) ==
    /\ pc[t] = "runlock"
    /\ mu' = [mu EXCEPT !.readers[t] = @ - 1]
    /\ pc' = [pc EXCEPT ![t] = "idle"]
    /\ UNCHANGED loc
    /\ UNCHANGED LockFixedVars

\* The proof of work and the store commit of MineBlock.
BcCommit(t) ==
    /\ pc[t] = "commit"
    /\ pc' = [pc EXCEPT ![t] = "unlock"]
    /\ UNCHANGED <<mu, loc>>
    /\ UNCHANGED LockFixedVars

\* The deferred bc.mu.Unlock() of MineBlock.
BcUnlock(t) ==
    /\ pc[t] = "unlock"
    /\ mu' = [mu EXCEPT !.writer = 0]
    /\ pc' = [pc EXCEPT ![t] = "idle"]
    /\ UNCHANGED loc
    /\ UNCHANGED LockFixedVars

\* The steps of a call once it is made.
BcStep(t) ==
    \/ BcLock(t) \/ BcLockAcquired(t)
    \/ BcIteratorRLock(t) \/ BcIteratorRUnlock(t)
    \/ BcFindUTXORLock(t) \/ BcFindUTXORUnlock(t)
    \/ BcCommit(t) \/ BcUnlock(t)

NextLock ==
    \/ \E t \in Threads, op \in LockOps, coinbaseOnly \in BOOLEAN :
          BcCall(t, op, coinbaseOnly)
    \/ \E t \in Threads : BcStep(t)

\* Every thread that can take a step again and again takes one.
SpecLock ==
    InitLock /\ [][NextLock]_vars /\ \A t \in Threads : SF_vars(BcStep(t))

\* C32: no call blocks forever on bc.mu: every call of MineBlock, with a
\* transaction that has an input too, and every call of FindUTXO, Reindex
\* or Iterator beside a MineBlock returns; and no thread asks for the lock
\* while it holds it as writer.
C32_NoCallBlocksForever ==
    /\ \A t \in Threads : [](pc[t] # "idle" => <>(pc[t] = "idle"))
    /\ [](\A t \in Threads :
             ~(mu.writer = t /\ pc[t] \in {"rlock", "iter_rlock", "lock"}))

\* MineBlock, holding bc.mu as writer, is at the RLock of Iterator.
C32_Witness ==
    \E t \in Threads :
       /\ mu.writer = t
       /\ loc[t].op = "MineBlock"
       /\ ~loc[t].coinbaseOnly
       /\ pc[t] = "iter_rlock"

(***************************************************************************)
(* The lock b.mu of a Block, a sync.RWMutex, under the methods of the two  *)
(* Block types (internal/block and types).  A method is the sequence of    *)
(* the lock operations it and the methods it calls perform.  mu is         *)
(* [pkg, writer, held, readers, fatal]: writer is the thread that has      *)
(* called Lock (0 for none), held whether its Lock has returned,           *)
(* readers[t] the read locks of thread t, fatal that the runtime has       *)
(* stopped the program.  pc[t] is the operation thread t is at (0: it is   *)
(* in no method), loc[t] names its method.                                 *)
(***************************************************************************)
\* internal/block/block.go.
InternalBlockMethods ==
    [GetNonce |-> <<"RLock", "Unlock">>,
     GetBits |-> <<"RLock", "RUnlock">>,
     GetHash |-> <<"RLock", "RUnlock">>,
     SetNonce |-> <<"Lock", "Unlock">>,
     SetBits |-> <<"Lock", "Unlock">>,
     UpdateHash |-> <<"Lock", "Unlock">>,
     CalculateHash |-> <<"RLock", "RUnlock">>,
     GetPoSHash |-> <<"RLock", "RLock", "RUnlock", "RUnlock">>]

\* types/block.go: UpdateHash calls CalculateHash, which calls PrepareData,
\* which calls HashTransactions.
TypesBlockMethods ==
    [GetNonce |-> <<"RLock", "RUnlock">>,
     GetHash |-> <<"RLock", "RUnlock">>,
     SetNonce |-> <<"Lock", "Unlock">>,
     SetHash |-> <<"Lock", "Unlock">>,
     UpdateHash |-> <<"Lock", "RLock", "RLock", "RUnlock", "RUnlock", "Unlock">>,
     CalculateHash |-> <<"RLock", "RLock", "RUnlock", "RUnlock">>]

BlockMethods(pkg) ==
    IF pkg = "internal" THEN InternalBlockMethods ELSE TypesBlockMethods

InitBlockLock ==
    /\ dbExists = FALSE
    /\ blocks = EmptyMap
    /\ lastHash = NilBytes
    /\ tip = NilBytes
    /\ utxoBucket = FALSE
    /\ chainstate = EmptyMap
    /\ validatorSet = <<>>
    /\ validatorsDB = EmptyMap
    /\ last = Outcome("none", "none", "none", <<>>)
    /\ \E pkg \in {"internal", "types"} :
          mu = [pkg |-> pkg, writer |-> 0, held |-> FALSE,
                readers |-> [t \in Threads |-> 0], fatal |-> FALSE]
    /\ pc = [t \in Threads |-> 0]
    /\ loc = [t \in Threads |-> "none"]
    /\ pow = EmptyMap

\* The lock operation thread t is at.
OpAt(t) ==
    IF pc[t] = 0 THEN "none" ELSE BlockMethods(mu.pkg)[loc[t]][pc[t]]

\* The place after the operation: the next one, or the return.
AfterOp(t) ==
    IF pc[t] = Len(BlockMethods(mu.pkg)[loc[t]]) THEN 0 ELSE pc[t] + 1

\* The read locks a thread may have left held when it calls a method.
MaxLeakedRLocks == 2

\* Thread t calls a method of the block.
BlockCall(t, method) ==
    /\ ~mu.fatal
    /\ pc[t] = 0
    /\ mu.readers[t] < MaxLeakedRLocks
    /\ method \in DOMAIN BlockMethods(mu.pkg)
    /\ pc' = [pc EXCEPT ![t] = 1]
    /\ loc' = [loc EXCEPT ![t] = method]
    /\ UNCHANGED mu
    /\ UNCHANGED LockFixedVars

\* b.mu.Lock(): the writer is announced; readers that come later wait.
BlockLock(t) ==
    /\ ~mu.fatal
    /\ OpAt(t) = "Lock"
    /\ mu.writer = 0
    /\ mu' = [mu EXCEPT !.writer = t, !.held = FALSE]
    /\ UNCHANGED <<pc, loc>>
    /\ UNCHANGED LockFixedVars

\* b.mu.Lock() returns once no read lock is held.
BlockLockAcquired(t) ==
    /\ ~mu.fatal
    /\ OpAt(t) = "Lock"
    /\ mu.writer = t
    /\ ~mu.held
    /\ \A r \in Threads : mu.readers[r] = 0
    /\ mu' = [mu EXCEPT !.held = TRUE]
    /\ pc' = [pc EXCEPT ![t] = AfterOp(t)]
    /\ UNCHANGED loc
    /\ UNCHANGED LockFixedVars

\* b.mu.RLock()
BlockRLock(t) ==
    /\ ~mu.fatal
    /\ OpAt(t) = "RLock"
    /\ mu.writer = 0
    /\ mu' = [mu EXCEPT !.readers[t] = @ + 1]
    /\ pc' = [pc EXCEPT ![t] = AfterOp(t)]
    /\ UNCHANGED loc
    /\ UNCHANGED LockFixedVars

\* b.mu.RUnlock()
BlockRUnlock(t) ==
    /\ ~mu.fatal
    /\ OpAt(t) = "RUnlock"
    /\ mu' = [mu EXCEPT !.readers[t] = @ - 1]
    /\ pc' = [pc EXCEPT ![t] = AfterOp(t)]
    /\ UNCHANGED loc
    /\ UNCHANGED LockFixedVars

\* b.mu.Unlock().  With no writer announced the runtime stops the program
\* ("sync: Unlock of unlocked RWMutex"); with one announced the mutex is
\* released whoever announced it.
BlockUnlock(t) ==
    /\ ~mu.fatal
    /\ OpAt(t) = "Unlock"
    /\ IF mu.writer = 0
       THEN /\ mu' = [mu EXCEPT !.fatal = TRUE]
            /\ UNCHANGED pc
       ELSE /\ mu' = [mu EXCEPT !.writer = 0, !.held = FALSE]
            /\ pc' = [pc EXCEPT ![t] = AfterOp(t)]
    /\ UNCHANGED loc
    /\ UNCHANGED LockFixedVars

NextBlockLock ==
    \/ \E t \in Threads, method \in DOMAIN InternalBlockMethods \cup DOMAIN TypesBlockMethods :
          BlockCall(t, method)
    \/ \E t \in Threads :
          \/ BlockLock(t) \/ BlockLockAcquired(t)
          \/ BlockRLock(t) \/ BlockRUnlock(t) \/ BlockUnlock(t)

SpecBlockLock == InitBlockLock /\ [][NextBlockLock]_vars

\* C33: every method of Block releases the lock in the mode it took it and
\* returns with none of the block's lock held: none calls Unlock without
\* holding the write lock, and none takes the lock again while its own call
\* holds the write lock.
C33_BlockMethodsBalanceTheLock ==
    \A t \in Threads :
       /\ OpAt(t) = "Unlock" => (mu.writer = t /\ mu.held)
       /\ OpAt(t) \in {"RLock", "Lock"} => mu.writer # t \/ ~mu.held
       /\ pc[t] = 0 => (mu.readers[t] = 0 /\ mu.writer # t)
       /\ ~mu.fatal

\* GetNonce of internal/block holds its read lock and is at its deferred
\* Unlock.
C33_Witness ==
    \E t \in Threads :
       /\ mu.pkg = "internal"
       /\ loc[t] = "GetNonce"
       /\ OpAt(t) = "Unlock"
       /\ mu.readers[t] = 1

\* C34: a retarget over a period that took exactly the expected time
\* (DIFFICULTY_ADJUSTMENT_BLOCKS * TARGET_BLOCK_TIME_SECONDS) returns the
\* bits of the previous block: target and bits convert into each other
\* without loss.
C34_EqualSpanKeepsBits ==
    (/\ pow.pc = "proposed" /\ ~pow.err /\ pow.retarget
     /\ pow.prevBits \in BitsRange
     /\ pow.actualTimeTaken = DIFFICULTY_ADJUSTMENT_BLOCKS * TARGET_BLOCK_TIME_SECONDS)
       => /\ pow.bits = pow.prevBits
          /\ TargetWidth - BitLen(2 ^ (TargetWidth - pow.prevBits)) = pow.prevBits

\* A retarget over the expected time from previous bits above the minimum,
\* whose block is the tip.
C34_Witness ==
    /\ pow.pc = "proposed"
    /\ ~pow.err
    /\ pow.retarget
    /\ pow.prevBits \in BitsRange \ {1}
    /\ pow.actualTimeTaken = DIFFICULTY_ADJUSTMENT_BLOCKS * TARGET_BLOCK_TIME_SECONDS
    /\ blocks[tip].Bits = pow.bits

\* C35: a create that has started and fails at one of its steps (the
\* initial stake, the proposal of the genesis block, the commit, the first
\* Reindex) writes nothing: after it DbExists() is false and the database
\* holds no validator record and no blocks bucket.
C35_FailedCreateWritesNothing ==
    [][(~dbExists /\ last'.op = "create" /\ last'.res = "error")
          => /\ ~dbExists'
             /\ validatorsDB' = EmptyMap
             /\ DOMAIN blocks' = {}]_vars

\* A create has failed at Reindex, after the genesis block was committed.
C35_Witness ==
    /\ last.op = "create"
    /\ last.res = "error"
    /\ dbExists
    /\ DOMAIN blocks # {}
    /\ DOMAIN validatorsDB # {}
    /\ ~utxoBucket

\* C36: in every state, also after an AddStake whose write to the store
\* failed, the validators in memory are the validators loadValidators
\* would read from the store (compared as sets of records), and an AddStake
\* that returns an error leaves the validators in memory as they were.
C36_CacheEqualsStore ==
    /\ [](Range(validatorSet) = Range(LoadValidators(validatorsDB)))
    /\ [][loc'.res \in {"error", "save_error"} => validatorSet' = validatorSet]_vars

\* An AddStake for a validator already in the set has returned the error
\* of SaveValidator.
C36_Witness ==
    /\ loc.res = "save_error"
    /\ Len(validatorSet) = 1
    /\ DOMAIN validatorsDB # {}
    /\ validatorSet[1].Stake = 150
    /\ validatorsDB[HashPubKey(validatorSet[1].PublicKey)].Stake = 100

(***************************************************************************)
(* Sign, a change of the signed transaction, and Verify.  loc is the call  *)
(* record: the transaction as built, as Sign left it, as it was changed,   *)
(* and what Verify returned for the changed one.                           *)
(***************************************************************************)
\* The transactions the inputs refer to: one paying WalletA, one WalletM.
PrevTxM == NewCoinbaseTx(WalletM.PublicKey, FixedCoinbaseData)

TamperPrevTXs == Put(ValidatePrevTXs, HexKey(PrevTxM.ID), PrevTxM)

\* The references a built transaction has: one or two of the two outputs.
SpendRefs ==
    LET ids == {PrevTx.ID, PrevTxM.ID}
    IN  UNION {[1 .. n -> ids] : n \in 1 .. 2}

\* What a reference or an output is changed to.
TamperIDs == {NilBytes, UnknownID, PrevTx.ID, PrevTxM.ID}
TamperVouts == {-1, 0, 1}
TamperOutputs == {TxOutput(v, HashPubKey(k)) : v \in {10, 20}, k \in PubKeys}

NoTamper ==
    [op |-> "none", built |-> NilBytes, signed |-> NilBytes, changed |-> NilBytes,
     res |-> "none"]

InitTamper ==
    /\ dbExists = FALSE
    /\ blocks = EmptyMap
    /\ lastHash = NilBytes
    /\ tip = NilBytes
    /\ utxoBucket = FALSE
    /\ chainstate = EmptyMap
    /\ validatorSet = <<>>
    /\ validatorsDB = EmptyMap
    /\ last = Outcome("none", "none", "none", <<>>)
    /\ mu = Unlocked
    /\ pc = EmptyMap
    /\ loc = NoTamper
    /\ pow = EmptyMap

TamperFixedVars == <<dbExists, blocks, lastHash, tip, utxoBucket, chainstate,
                     validatorSet, validatorsDB, last, mu, pc, pow>>

\* A transaction over refs is built and tx.Sign(w, prevTXs) is called.
TamperSign(w, refs, out) ==
    /\ loc.op = "none"
    /\ LET body == [ID |-> NilBytes,
                    Vin |-> [i \in DOMAIN refs |->
                                TxInput(refs[i], 0, NilBytes, w.PublicKey)],
                    Vout |-> <<out>>]
           tx == [body EXCEPT !.ID = TxHash(body)]
           signed == Sign(tx, w, 64, TamperPrevTXs)
       IN  loc' = [op |-> "signed", built |-> tx, signed |-> signed.tx,
                   changed |-> signed.tx, res |-> signed.res]
    /\ UNCHANGED TamperFixedVars

\* An output of the signed transaction is replaced, then tx.Verify(prevTXs).
TamperOutput(j, out) ==
    /\ loc.op = "signed"
    /\ j \in DOMAIN loc.signed.Vout
    /\ out # loc.signed.Vout[j]
    /\ LET changed == [loc.signed EXCEPT !.Vout[j] = out]
       IN  loc' = [loc EXCEPT !.op = "verified", !.changed = changed,
                              !.res = Verify(changed, TamperPrevTXs)]
    /\ UNCHANGED TamperFixedVars

\* The reference of an input of the signed transaction is replaced, then
\* tx.Verify(prevTXs).
TamperInput(i, txid, vout) ==
    /\ loc.op = "signed"
    /\ i \in DOMAIN loc.signed.Vin
    /\ <<txid, vout>> # <<loc.signed.Vin[i].Txid, loc.signed.Vin[i].Vout>>
    /\ LET changed == [loc.signed EXCEPT !.Vin[i].Txid = txid, !.Vin[i].Vout = vout]
       IN  loc' = [loc EXCEPT !.op = "verified", !.changed = changed,
                              !.res = Verify(changed, TamperPrevTXs)]
    /\ UNCHANGED TamperFixedVars

\* tx.Verify(prevTXs) of the transaction as Sign left it.
VerifySigned ==
    /\ loc.op = "signed"
    /\ loc' = [loc EXCEPT !.op = "verified", !.res = Verify(loc.signed, TamperPrevTXs)]
    /\ UNCHANGED TamperFixedVars

NextTamper ==
    \/ \E w \in Wallets, refs \in SpendRefs, out \in TamperOutputs : TamperSign(w, refs, out)
    \/ \E j \in 1 .. 2, out \in TamperOutputs : TamperOutput(j, out)
    \/ \E i \in 1 .. 2, txid \in TamperIDs, vout \in TamperVouts : TamperInput(i, txid, vout)
    \/ VerifySigned

SpecTamper == InitTamper /\ [][NextTamper]_vars

\* The digest Verify recomputes for input i of tx.
VerifyDigest(tx, i) == InputDigest(tx, i, TamperPrevTXs[HexKey(tx.Vin[i].Txid)])

\* C37: for every input of a signed transaction the digest Verify
\* recomputes is the digest Sign signed, and it is the same whatever the
\* stored id, the signatures and the public keys the inputs carry; and
\* Verify returns false for a signed transaction of which an output or an
\* input reference was changed.
C37_VerifyDigestIsSignDigest ==
    /\ loc.op # "none" =>
          \A i \in DOMAIN loc.signed.Vin :
             /\ loc.signed.Vin[i].Signature[2] = VerifyDigest(loc.signed, i)
             /\ \A id \in TamperIDs, k \in PubKeys \cup {NilKey}, sig \in {NilBytes, <<0>>} :
                   VerifyDigest([loc.signed EXCEPT !.ID = id,
                                    !.Vin = [n \in DOMAIN loc.signed.Vin |->
                                               [loc.signed.Vin[n] EXCEPT !.PubKey = k,
                                                                          !.Signature = sig]]], i)
                      = VerifyDigest(loc.built, i)
    /\ (loc.op = "verified" /\ loc.changed # loc.signed) => loc.res \in {"invalid", "error"}

\* The one input of a transaction whose signature verifies was given the
\* reference of a coinbase input, and Verify was called.
C37_Witness ==
    /\ loc.op = "verified"
    /\ Verify(loc.signed, TamperPrevTXs) = "ok"
    /\ Len(loc.changed.Vin) = 1
    /\ loc.changed.Vin[1].Txid = NilBytes
    /\ loc.changed.Vin[1].Vout = -1
    /\ loc.changed.Vout = loc.signed.Vout

====
